---------------------------- MODULE Spec2Model ----------------------------
(***************************************************************************)
(* A model of the tile-matching puzzle: the BackendPuzzle engine (grid,    *)
(* moves, match detection, explode-and-replace phases), the BoardView      *)
(* sprite table and the Game scene controllers that drive both.            *)
(*                                                                         *)
(* Arrays are 1-indexed sequences here; the coordinates the program uses   *)
(* (and the ones stored in matches) are 0-based, so cell (x, y) of the     *)
(* program is grid[x + 1][y + 1].  A cell is modelled by its gemType; the  *)
(* value NULL stands for a null cell and UNDEF for an absent value.        *)
(***************************************************************************)
EXTENDS Integers, Sequences, FiniteSets, TLC

NULL == "null"
UNDEF == "undefined"

(* ------------------------------ bounds --------------------------------- *)

\* Longest manual spawn queue the model builds.
MaxQueue == 2
\* Number of public engine calls explored after construction.
MaxCalls == 2
\* Longest period of the random streams (the results of Math.random()).
MaxPeriod == 2
\* Number of drags the player releases.
MaxDrags == 2
\* Number of phases one drag's sequence animates (the move's and cascades).
MaxPhases == 2
\* Number of 'cesium-location-selected' events.
MaxInits == 2
\* Largest amount of a move, either way.
MaxAmount == 6
\* Number of calls made on the engines of several shapes.
MaxMoveCalls == 1
\* Number of calls made where queue, influence and requests meet.
MaxSpawnCalls == 3
\* Number of types selected in a row.
MaxSelects == 2
\* Number of requests made with a list of several moves.
MaxListCalls == 1

(* ----------------------------- constants ------------------------------- *)

\* GEM_TYPES of game/constants.js: the token types, in array order.
GEM_TYPES == <<"blue", "green", "red">>

\* The board the scenes construct: new BackendPuzzle(GRID_COLS, GRID_ROWS).
GRID_DIMS == <<3, 3>>

\* HABITAT_GEM_MAP[habitatValue]; UNDEF when the key is absent.
HABITAT_GEM_MAP(h) ==
    IF h \in 100..109 THEN "green"
    ELSE IF h \in 200..202 THEN "orange"
    ELSE IF h \in 300..308 THEN "black"
    ELSE IF h \in (400..407) \cup (500..518) THEN "blue"
    ELSE IF h \in 900..901 THEN "white"
    ELSE IF h \in (1000..1004) \cup (1100..1106) \cup {1200, 1206, 1207} THEN "blue"
    ELSE IF h \in 1400..1406 THEN "red"
    ELSE IF h = 0 THEN "blue"
    ELSE IF h = 1700 THEN "white"
    ELSE UNDEF

VARIABLES
    gemTypes,          \* the GEM_TYPES array the engine was built with
    width,             \* BackendPuzzle.width
    height,            \* BackendPuzzle.height
    puzzleState,       \* BackendPuzzle.puzzleState: sequence of columns
    nextGemsToSpawn,   \* BackendPuzzle.nextGemsToSpawn
    habitatInfluence,  \* BackendPuzzle.habitatInfluence: JsNull or an array
    call,              \* the last call of the engine: its name, arguments and result
    calls,             \* number of calls made (engine) or of drags released (scene)
    canMove,           \* Game.canMove
    isBoardInitialized,\* Game.isBoardInitialized (part_001)
    drag,              \* Game.isDragging, dragDirection, dragStartX/Y, draggingSprites, ...
    gemsSprites,       \* BoardView.gemsSprites: columns of sprites, or <<>>
    tasks,             \* the asynchronous pointer-up sequences, one per released drag
    inits              \* number of 'cesium-location-selected' events handled

engineVars == <<gemTypes, width, height, puzzleState, nextGemsToSpawn, habitatInfluence>>
sceneVars == <<canMove, isBoardInitialized, drag, gemsSprites, tasks, inits>>
vars == <<gemTypes, width, height, puzzleState, nextGemsToSpawn, habitatInfluence,
          call, calls, canMove, isBoardInitialized, drag, gemsSprites, tasks, inits>>

(* ------------------------------ helpers -------------------------------- *)

Range(s) == {s[i] : i \in DOMAIN s}

\* JavaScript's remainder: the sign of the dividend.
JsRem(a, n) == IF a >= 0 THEN a % n ELSE -((-a) % n)

\* Array.prototype.slice(start, end) on a sequence (0-based, end exclusive).
JsSlice(s, start, end) ==
    LET n  == Len(s)
        from == IF start < 0 THEN (IF n + start < 0 THEN 0 ELSE n + start)
                ELSE (IF start > n THEN n ELSE start)
        to   == IF end < 0 THEN (IF n + end < 0 THEN 0 ELSE n + end)
                ELSE (IF end > n THEN n ELSE end)
    IN  IF to <= from THEN <<>> ELSE SubSeq(s, from + 1, to)

\* grid[x]?.[y]: UNDEF outside the arrays.
CellAt(grid, x, y) ==
    IF x + 1 \in DOMAIN grid /\ y + 1 \in DOMAIN grid[x + 1]
    THEN grid[x + 1][y + 1]
    ELSE UNDEF

\* puzzleState[x]?.[y]?.gemType
getGemType(grid, x, y) ==
    LET c == CellAt(grid, x, y) IN IF c = NULL THEN UNDEF ELSE c

Truthy(t) == t \notin {UNDEF, NULL, ""}

(* ------------------------- initial generation -------------------------- *)

\* PossibleTypes without the horizontal filter.
PossibleTypes_NoHorizontalFilter(types, grid, x, y) ==
    LET prevY1 == CellAt(grid, x, y - 1)
        prevY2 == CellAt(grid, x, y - 2)
        afterV == IF y >= 2 /\ prevY1 \notin {UNDEF, NULL} /\ prevY1 = prevY2
                  THEN SelectSeq(types, LAMBDA t : t # prevY1) ELSE types
    IN  IF Len(afterV) = 0 THEN types ELSE afterV

\* PossibleTypes without the fallback: the filtered list, empty or not.
PossibleTypes_NoFallback(types, grid, x, y) ==
    LET prevY1 == getGemType(grid, x, y - 1)
        prevY2 == getGemType(grid, x, y - 2)
        prevX1 == getGemType(grid, x - 1, y)
        prevX2 == getGemType(grid, x - 2, y)
        afterV == IF y >= 2 /\ Truthy(prevY1) /\ prevY1 = prevY2
                  THEN SelectSeq(types, LAMBDA t : t # prevY1) ELSE types
    IN  IF x >= 2 /\ Truthy(prevX1) /\ prevX1 = prevX2
        THEN SelectSeq(afterV, LAMBDA t : t # prevX1) ELSE afterV

\* The types left for cell (x, y) after the vertical and horizontal filters,
\* with the fallback to all types when none is left.
PossibleTypes(types, grid, x, y) ==
    LET prevY1 == getGemType(grid, x, y - 1)
        prevY2 == getGemType(grid, x, y - 2)
        prevX1 == getGemType(grid, x - 1, y)
        prevX2 == getGemType(grid, x - 2, y)
        afterV == IF y >= 2 /\ Truthy(prevY1) /\ prevY1 = prevY2
                  THEN SelectSeq(types, LAMBDA t : t # prevY1) ELSE types
        afterH == IF x >= 2 /\ Truthy(prevX1) /\ prevX1 = prevX2
                  THEN SelectSeq(afterV, LAMBDA t : t # prevX1) ELSE afterV
    IN  IF Len(afterH) = 0 THEN types ELSE afterH

\* Math.floor(Math.random() * n), the random number being r / den.
RandomIndex(r, den, n) == (r * n) \div den

\* array[i]: UNDEF outside the array.
ArrayAt(array, i) == IF i + 1 \in DOMAIN array THEN array[i + 1] ELSE UNDEF

\* The grid the nested loops leave after filling the first k cells (column
\* by column, top to bottom) when the i-th call of Math.random() returns
\* rnd[i] / Len(types); unfilled cells are NULL.
RECURSIVE GenCells(_, _, _, _, _)
GenCells(types, w, h, rnd, k) ==
    IF k = 0
    THEN [x \in 1..w |-> [y \in 1..h |-> NULL]]
    ELSE LET g == GenCells(types, w, h, rnd, k - 1)
             x == (k - 1) \div h
             y == (k - 1) % h
             possibleTypes == PossibleTypes(types, g, x, y)
             gemType == ArrayAt(possibleTypes,
                 RandomIndex(rnd[k], Len(types), Len(possibleTypes)))
         IN  [g EXCEPT ![x + 1][y + 1] = gemType]

getInitialPuzzleStateWithNoMatches(types, w, h, rnd) ==
    IF w <= 0 THEN <<>> ELSE GenCells(types, w, h, rnd, w * h)

\* new Array(height) in the first pass of the loop over the columns throws
\* a RangeError for a negative length; no other statement of the constructor
\* looks at the sizes.
constructorThrows(w, h) == w > 0 /\ h < 0

\* Every sequence of n random numbers: numerators over Len(types), which
\* makes every index of every candidate list possible.
RandomStreams(types, n) == [1..n -> 0..(Len(types) - 1)]

\* The streams that repeat with period p.
PeriodicStreams(types, n, p) ==
    { [i \in 1..n |-> s[((i - 1) % p) + 1]] : s \in RandomStreams(types, p) }

(* ------------------------------- moves --------------------------------- *)

MoveAction(rowOrCol, index, amount) ==
    [rowOrCol |-> rowOrCol, index |-> index, amount |-> amount]

\* EffectiveAmount as the remainder alone: amount % length.
EffectiveAmount_Remainder(amount, length) == JsRem(amount, length)

\* EffectiveAmount that drops the sign: Math.abs(amount) % length.
EffectiveAmount_Abs(amount, length) ==
    JsRem(IF amount < 0 THEN -amount ELSE amount, length)

\* EffectiveAmount that clamps the amount into 0 .. length - 1.
EffectiveAmount_Clamped(amount, length) ==
    IF amount < 0 THEN 0 ELSE IF amount >= length THEN length - 1 ELSE amount

\* ((amount % length) + length) % length
EffectiveAmount(amount, length) == JsRem(JsRem(amount, length) + length, length)

\* LineIndex that wraps the index into the grid.
LineIndex_Wrapped(index, limit) == index % limit

\* const y = index; const x = index: the line is the one the move names.
LineIndex(index, limit) == index

\* applyMoveToGrid that shifts every row for a row move and every column
\* for a column move.
applyMoveToGrid_AllLines(grid, w, h, moveAction) ==
    LET amount == moveAction.amount
        eff == EffectiveAmount(amount, IF moveAction.rowOrCol = "row" THEN w ELSE h)
    IN  IF amount = 0 \/ eff = 0 THEN grid
        ELSE IF moveAction.rowOrCol = "row"
        THEN IF moveAction.index < 0 \/ moveAction.index >= h THEN grid
             ELSE [i \in DOMAIN grid |-> grid[((i - 1 - eff) % w) + 1]]
        ELSE IF moveAction.index < 0 \/ moveAction.index >= w THEN grid
             ELSE [i \in DOMAIN grid |->
                     JsSlice(grid[i], h - eff, h) \o JsSlice(grid[i], 0, h - eff)]

\* applyMoveToGrid(grid, moveAction) of an engine of size w x h: the grid it
\* leaves (the program shifts in place).
applyMoveToGrid(grid, w, h, moveAction) ==
    LET index  == moveAction.index
        amount == moveAction.amount
    IN  IF amount = 0 THEN grid
        ELSE IF moveAction.rowOrCol = "row"
        THEN LET eff == EffectiveAmount(amount, w)
                 y   == LineIndex(index, h)
                 currentRow == [i \in 1..w |-> CellAt(grid, i - 1, y)]
                 newRow == JsSlice(currentRow, -eff, w) \o JsSlice(currentRow, 0, w - eff)
             IN  IF eff = 0 THEN grid
                 ELSE IF y < 0 \/ y >= h THEN grid
                 ELSE IF \E i \in 1..w : currentRow[i] = UNDEF THEN grid
                 ELSE [i \in DOMAIN grid |->
                          IF i <= w THEN [grid[i] EXCEPT ![y + 1] = newRow[i]]
                          ELSE grid[i]]
        ELSE LET eff == EffectiveAmount(amount, h)
                 x   == LineIndex(index, w)
             IN  IF eff = 0 THEN grid
                 ELSE IF x < 0 \/ x >= w \/ x + 1 \notin DOMAIN grid THEN grid
                 ELSE LET currentCol == grid[x + 1]
                          n == Len(currentCol)
                          newCol == JsSlice(currentCol, h - eff, n)
                                    \o JsSlice(currentCol, 0, h - eff)
                      IN  IF \E i \in 1..n : currentCol[i] = UNDEF THEN grid
                          ELSE [grid EXCEPT ![x + 1] = newCol]

\* applyMoves that applies the actions last to first.
RECURSIVE applyMoves_Reversed(_, _, _, _)
applyMoves_Reversed(grid, w, h, actions) ==
    IF actions = <<>> THEN grid
    ELSE applyMoveToGrid(applyMoves_Reversed(grid, w, h, Tail(actions)),
                         w, h, Head(actions))

\* applyMoves that applies no action.
applyMoves_None(grid, w, h, actions) == grid

\* The for-loop over the actions of getNextExplodeAndReplacePhase.
RECURSIVE applyMoves(_, _, _, _)
applyMoves(grid, w, h, actions) ==
    IF actions = <<>> THEN grid
    ELSE applyMoves(applyMoveToGrid(grid, w, h, Head(actions)), w, h, Tail(actions))

(* --------------------------- match detection --------------------------- *)

\* matchLength that stops counting at three.
RECURSIVE matchLength_UpToThree(_, _, _, _, _, _, _, _)
matchLength_UpToThree(grid, x, y, dx, dy, limit, type, len) ==
    IF len < 3 /\ (x * dx + y * dy) + len < limit
       /\ getGemType(grid, x + dx * len, y + dy * len) = type
    THEN matchLength_UpToThree(grid, x, y, dx, dy, limit, type, len + 1)
    ELSE len

\* The inner while loops: the length of the run of `type` that starts at
\* (x, y) and goes down (dx = 0, dy = 1) or right (dx = 1, dy = 0).
RECURSIVE matchLength(_, _, _, _, _, _, _, _)
matchLength(grid, x, y, dx, dy, limit, type, len) ==
    IF (x * dx + y * dy) + len < limit
       /\ getGemType(grid, x + dx * len, y + dy * len) = type
    THEN matchLength(grid, x, y, dx, dy, limit, type, len + 1)
    ELSE len

\* The scan of column x from row y on.
RECURSIVE verticalMatches(_, _, _, _)
verticalMatches(grid, h, x, y) ==
    IF ~(y < h - 2) THEN <<>>
    ELSE LET currentType == getGemType(grid, x, y) IN
         IF ~Truthy(currentType) THEN verticalMatches(grid, h, x, y + 1)
         ELSE LET n == matchLength(grid, x, y, 0, 1, h, currentType, 1)
                  match == [i \in 1..n |-> <<x, y + i - 1>>]
              IN  (IF n >= 3 THEN <<match>> ELSE <<>>)
                  \o verticalMatches(grid, h, x, y + n)

\* The scan of row y from column x on.
RECURSIVE horizontalMatches(_, _, _, _)
horizontalMatches(grid, w, x, y) ==
    IF ~(x < w - 2) THEN <<>>
    ELSE LET currentType == getGemType(grid, x, y) IN
         IF ~Truthy(currentType) THEN horizontalMatches(grid, w, x + 1, y)
         ELSE LET n == matchLength(grid, x, y, 1, 0, w, currentType, 1)
                  match == [i \in 1..n |-> <<x + i - 1, y>>]
              IN  (IF n >= 3 THEN <<match>> ELSE <<>>)
                  \o horizontalMatches(grid, w, x + n, y)

RECURSIVE allVertical(_, _, _, _)
allVertical(grid, w, h, x) ==
    IF ~(x < w) THEN <<>>
    ELSE verticalMatches(grid, h, x, 0) \o allVertical(grid, w, h, x + 1)

RECURSIVE allHorizontal(_, _, _, _)
allHorizontal(grid, w, h, y) ==
    IF ~(y < h) THEN <<>>
    ELSE horizontalMatches(grid, w, 0, y) \o allHorizontal(grid, w, h, y + 1)

\* getMatches(puzzleState) of an engine of size w x h.
getMatches(grid, w, h) ==
    IF w = 0 \/ h = 0 THEN <<>>
    ELSE allVertical(grid, w, h, 0) \o allHorizontal(grid, w, h, 0)

(* ----------------------- explode-and-replace phase ---------------------- *)

\* new ExplodeAndReplacePhase(matches, replacements)
ExplodeAndReplacePhase(matches, replacements) ==
    [matches |-> matches, replacements |-> replacements]

\* ExplodeAndReplacePhase.isNothingToDo()
isNothingToDo(phase) == Len(phase.matches) = 0

\* The Set of the coordinates of all matches.
explodedCoords(matches) ==
    UNION { Range(matches[i]) : i \in DOMAIN matches }

\* explosionCount counting a cell once for every match it is part of.
explosionCount_PerMatch(matches, x) ==
    LET RECURSIVE sum(_)
        sum(i) == IF i = 0 THEN 0
                  ELSE sum(i - 1) + Cardinality({ j \in DOMAIN matches[i] :
                                                    matches[i][j][1] = x })
    IN  sum(Len(matches))

\* explosionCount that leaves out the cells two matches share.
explosionCount_Unshared(matches, x) ==
    Cardinality({ c \in explodedCoords(matches) :
                    /\ c[1] = x
                    /\ Cardinality({ i \in DOMAIN matches : c \in Range(matches[i]) }) = 1 })

\* explosionCounts[x] || 0
explosionCount(matches, x) ==
    Cardinality({ c \in explodedCoords(matches) : c[1] = x })

\* this.habitatInfluence && this.habitatInfluence.length > 0
hasInfluence(influence) == influence.type = "array" /\ Len(influence.items) > 0

\* getNextGemToSpawnType that looks at the influence before the queue.
getNextGemToSpawnType_InfluenceFirst(types, queue, influence, rnd, k) ==
    IF hasInfluence(influence)
    THEN LET habitatValue == influence.items[
                 RandomIndex(rnd[k], Len(types), Len(influence.items)) + 1]
             mappedGemType == HABITAT_GEM_MAP(habitatValue.value)
         IN  IF Truthy(mappedGemType) /\ mappedGemType \in Range(types)
             THEN [type |-> mappedGemType, queue |-> queue, k |-> k + 1]
             ELSE [type |-> types[RandomIndex(rnd[k + 1], Len(types),
                                              Len(types)) + 1],
                   queue |-> queue, k |-> k + 2]
    ELSE IF Len(queue) > 0
    THEN [type |-> Head(queue), queue |-> Tail(queue), k |-> k]
    ELSE [type |-> types[RandomIndex(rnd[k], Len(types), Len(types)) + 1],
          queue |-> queue, k |-> k + 1]

\* getNextGemToSpawnType that returns whatever the habitat maps to.
getNextGemToSpawnType_Unchecked(types, queue, influence, rnd, k) ==
    IF Len(queue) > 0
    THEN [type |-> Head(queue), queue |-> Tail(queue), k |-> k]
    ELSE IF hasInfluence(influence)
    THEN [type |-> HABITAT_GEM_MAP(influence.items[
                       RandomIndex(rnd[k], Len(types), Len(influence.items)) + 1].value),
          queue |-> queue, k |-> k + 1]
    ELSE [type |-> types[RandomIndex(rnd[k], Len(types), Len(types)) + 1],
          queue |-> queue, k |-> k + 1]

\* getNextGemToSpawnType() when the calls of Math.random() from the k-th on
\* return rnd[k] / Len(types), ...: the type returned, the queue left and
\* the position of the next random number.
getNextGemToSpawnType(types, queue, influence, rnd, k) ==
    IF Len(queue) > 0
    THEN [type |-> Head(queue), queue |-> Tail(queue), k |-> k]
    ELSE IF hasInfluence(influence)
    THEN LET habitatValue == influence.items[
                 RandomIndex(rnd[k], Len(types), Len(influence.items)) + 1]
             mappedGemType == HABITAT_GEM_MAP(habitatValue.value)
         IN  IF Truthy(mappedGemType) /\ mappedGemType \in Range(types)
             THEN [type |-> mappedGemType, queue |-> queue, k |-> k + 1]
             ELSE [type |-> types[RandomIndex(rnd[k + 1], Len(types),
                                              Len(types)) + 1],
                   queue |-> queue, k |-> k + 2]
    ELSE [type |-> types[RandomIndex(rnd[k], Len(types), Len(types)) + 1],
          queue |-> queue, k |-> k + 1]

\* The inner loop that fills typesForCol: `count` calls in a row.
RECURSIVE typesForCol(_, _, _, _, _, _)
typesForCol(types, queue, influence, rnd, k, count) ==
    IF count = 0 THEN [types |-> <<>>, queue |-> queue, k |-> k]
    ELSE LET first == getNextGemToSpawnType(types, queue, influence, rnd, k)
             rest  == typesForCol(types, first.queue, influence, rnd, first.k,
                                  count - 1)
         IN  [rest EXCEPT !.types = <<first.type>> \o rest.types]

\* The loop over the columns from x on: the replacements, the queue left and
\* the position of the next random number.
RECURSIVE generateReplacements(_, _, _, _, _, _, _, _)
generateReplacements(types, w, matches, queue, influence, rnd, k, x) ==
    IF ~(x < w) THEN [replacements |-> <<>>, queue |-> queue, k |-> k]
    ELSE LET count == explosionCount(matches, x) IN
         IF count > 0
         THEN LET col  == typesForCol(types, queue, influence, rnd, k, count)
                  rest == generateReplacements(types, w, matches, col.queue,
                                               influence, rnd, col.k, x + 1)
              IN  [rest EXCEPT !.replacements = << <<x, col.types>> >> \o rest.replacements]
         ELSE generateReplacements(types, w, matches, queue, influence, rnd, k, x + 1)

\* new Map(phase.replacements).get(x) || []
replacementsFor(replacements, x) ==
    LET hits == { i \in DOMAIN replacements : replacements[i][1] = x } IN
    IF hits = {} THEN <<>>
    ELSE replacements[CHOOSE i \in hits : \A j \in hits : j <= i][2]

\* The null padding and the truncation at the end of the column loop.
RECURSIVE fixColumnLength(_, _)
fixColumnLength(col, h) ==
    IF Len(col) < h THEN fixColumnLength(Append(col, NULL), h)
    ELSE IF Len(col) > h THEN JsSlice(col, 0, h)
    ELSE col

\* newColumn with the replacement types left out.
newColumn_SurvivorsOnly(grid, phase, x) ==
    LET currentColumn == IF x + 1 \in DOMAIN grid THEN grid[x + 1] ELSE <<>>
    IN  SelectSeq([i \in DOMAIN currentColumn |->
                      IF \E m \in DOMAIN phase.matches :
                            <<x, i - 1>> \in Range(phase.matches[m])
                      THEN NULL ELSE currentColumn[i]],
                  LAMBDA c : c # NULL)

\* newColumn with the surviving cells above the new ones.
newColumn_SurvivorsFirst(grid, phase, x) ==
    LET coords == explodedCoords(phase.matches)
        currentColumn == IF x + 1 \in DOMAIN grid THEN grid[x + 1] ELSE <<>>
        survivingGems == SelectSeq(
            [i \in DOMAIN currentColumn |->
                IF <<x, i - 1>> \in coords THEN NULL ELSE currentColumn[i]],
            LAMBDA c : c # NULL)
    IN  survivingGems \o replacementsFor(phase.replacements, x)

\* The column applyExplodeAndReplacePhase builds before it checks its length.
newColumn(grid, phase, x) ==
    LET coords == explodedCoords(phase.matches)
        currentColumn == IF x + 1 \in DOMAIN grid THEN grid[x + 1] ELSE <<>>
        keep == { i \in DOMAIN currentColumn : <<x, i - 1>> \notin coords }
        survivingGems == [k \in 1..Cardinality(keep) |->
            currentColumn[CHOOSE i \in keep :
                              Cardinality({j \in keep : j < i}) = k - 1]]
        newGems == replacementsFor(phase.replacements, x)
    IN  newGems \o survivingGems

\* applyExplodeAndReplacePhase(phase): the new puzzleState.
applyExplodeAndReplacePhase(grid, w, h, phase) ==
    IF isNothingToDo(phase) THEN grid
    ELSE [i \in 1..w |-> fixColumnLength(newColumn(grid, phase, i - 1), h)]

\* getNextExplodeAndReplacePhase that clears the runs its refill created as
\* well, in a second cycle, before it returns the first phase.
getNextExplodeAndReplacePhase_TwoCycles(types, grid, w, h, queue, influence, actions, rnd) ==
    LET moved   == applyMoves(grid, w, h, actions)
        matches == getMatches(moved, w, h)
        r == IF Len(matches) > 0
             THEN generateReplacements(types, w, matches, queue, influence, rnd, 1, 0)
             ELSE [replacements |-> <<>>, queue |-> queue, k |-> 1]
        phaseResult == ExplodeAndReplacePhase(matches, r.replacements)
        once == IF ~isNothingToDo(phaseResult)
                THEN applyExplodeAndReplacePhase(moved, w, h, phaseResult)
                ELSE moved
        again == getMatches(once, w, h)
        r2 == IF Len(again) > 0
              THEN generateReplacements(types, w, again, r.queue, influence, rnd, 1, 0)
              ELSE [replacements |-> <<>>, queue |-> r.queue, k |-> 1]
    IN  [phase |-> phaseResult,
         grid  |-> IF Len(again) > 0
                   THEN applyExplodeAndReplacePhase(once, w, h,
                            ExplodeAndReplacePhase(again, r2.replacements))
                   ELSE once,
         queue |-> r2.queue]

\* getNextExplodeAndReplacePhase(actions) when Math.random() follows rnd:
\* the phase returned and the grid and the queue left.
getNextExplodeAndReplacePhase(types, grid, w, h, queue, influence, actions, rnd) ==
    LET moved   == applyMoves(grid, w, h, actions)
        matches == getMatches(moved, w, h)
        r == IF Len(matches) > 0
             THEN generateReplacements(types, w, matches, queue, influence, rnd, 1, 0)
             ELSE [replacements |-> <<>>, queue |-> queue, k |-> 1]
        phaseResult == ExplodeAndReplacePhase(matches, r.replacements)
    IN  [phase |-> phaseResult,
         grid  |-> IF ~isNothingToDo(phaseResult)
                   THEN applyExplodeAndReplacePhase(moved, w, h, phaseResult)
                   ELSE moved,
         queue |-> r.queue]

\* A copy of the grid that shares its columns with the original.
structuredClone_Shallow(grid) == [grid |-> grid, sharesColumns |-> TRUE]

\* structuredClone(this.puzzleState), or JSON.parse(JSON.stringify(...)): a
\* deep copy, which shares nothing with the original.
structuredClone(grid) == [grid |-> grid, sharesColumns |-> FALSE]

\* getMatchesFromHypotheticalMove(moveAction): the matches it returns and
\* the puzzleState it leaves.  The move is applied to the copy in place: a
\* row move writes into the columns of the copy, a column move replaces a
\* column of the copy.
hypotheticalMove(grid, w, h, moveAction) ==
    LET hypotheticalState == structuredClone(grid)
        moved == applyMoveToGrid(hypotheticalState.grid, w, h, moveAction)
    IN  [matches |-> getMatches(moved, w, h),
         grid |-> IF hypotheticalState.sharesColumns /\ moveAction.rowOrCol = "row"
                  THEN moved ELSE grid]

\* getMatchesFromHypotheticalMove without line 223: the matches of the grid
\* as it is.
getMatchesFromHypotheticalMove_Unmoved(grid, w, h, moveAction) ==
    getMatches(grid, w, h)

getMatchesFromHypotheticalMove(grid, w, h, moveAction) ==
    hypotheticalMove(grid, w, h, moveAction).matches

\* JavaScript values handed to setHabitatInfluence: null, a non-array, or
\* an array whose entries are numbers, NaN or non-numbers.
JsNull == [type |-> "null", items |-> <<>>]
JsString == [type |-> "string", items |-> <<>>]
JsArray(items) == [type |-> "array", items |-> items]
Num(n) == [type |-> "number", value |-> n]
NaN == [type |-> "NaN", value |-> 0]
Str == [type |-> "string", value |-> 0]

\* setHabitatInfluence without the filter of line 77 and the test of
\* line 78: an array is stored as it is.
setHabitatInfluence_Unfiltered(habitatValues) ==
    IF habitatValues.type = "array" THEN habitatValues ELSE JsNull

\* setHabitatInfluence(habitatValues): the new habitatInfluence.
setHabitatInfluence(habitatValues) ==
    IF habitatValues.type = "array"
    THEN LET validHabitats ==
                 SelectSeq(habitatValues.items, LAMBDA v : v.type = "number")
         IN  IF Len(validHabitats) > 0 THEN JsArray(validHabitats) ELSE JsNull
    ELSE JsNull

\* reset that regenerates the grid and leaves the queue and the influence.
reset_GridOnly(types, w, h, queue, influence, rnd) ==
    [grid |-> getInitialPuzzleStateWithNoMatches(types, w, h, rnd),
     queue |-> queue, influence |-> influence]

\* reset() when Math.random() follows rnd: the puzzleState, the
\* nextGemsToSpawn and the habitatInfluence it assigns.
reset(types, w, h, queue, influence, rnd) ==
    [grid |-> getInitialPuzzleStateWithNoMatches(types, w, h, rnd),
     queue |-> <<>>, influence |-> JsNull]

(* ------------------------------ BoardView ------------------------------- *)

\* A sprite of the view with its data: gemType, gridX, gridY; NoSprite is null.
Sprite(gemType, gridX, gridY) ==
    [gemType |-> gemType, gridX |-> gridX, gridY |-> gridY]

NoSprite == Sprite(NULL, -1, -1)

\* resetDragState(): no drag.  dragStartX / dragStartY keep their values in
\* the program but are read only after handlePointerDown has set them, so
\* the model clears them as well.
NoDrag ==
    [isDragging |-> FALSE, dragDirection |-> NULL, dragStartX |-> 0, dragStartY |-> 0,
     draggingSprites |-> <<>>, dragStartSpritePositions |-> <<>>]

\* BoardView.getSpriteAt(x, y)
getSpriteAt(sprites, x, y) ==
    IF x + 1 \in DOMAIN sprites /\ y + 1 \in DOMAIN sprites[x + 1]
    THEN sprites[x + 1][y + 1]
    ELSE NoSprite

\* BoardView.createBoard(initialPuzzleState): the new gemsSprites.
createBoard(initialPuzzleState, cols, rows) ==
    [i \in 1..cols |-> [j \in 1..rows |->
        LET gemData == CellAt(initialPuzzleState, i - 1, j - 1) IN
        IF Truthy(gemData) THEN Sprite(gemData, i - 1, j - 1) ELSE NoSprite]]

\* A sprite that keeps the gridX and gridY it had.
setGridData_Keep(sprite, x, y) == sprite

\* sprite.setData('gridX', x); sprite.setData('gridY', y) on a sprite or null.
setGridData(sprite, x, y) ==
    IF sprite = NoSprite THEN NoSprite ELSE Sprite(sprite.gemType, x, y)

\* BoardView.updateGemsSpritesArrayAfterMove(moveAction): the new gemsSprites.
updateGemsSpritesArrayAfterMove(sprites, cols, rows, moveAction) ==
    LET index  == moveAction.index
        amount == moveAction.amount
    IN  IF moveAction.rowOrCol = "row"
        THEN IF index < 0 \/ index >= rows THEN sprites
             ELSE LET effectiveAmount == EffectiveAmount(amount, cols) IN
                  IF effectiveAmount = 0 THEN sprites
                  ELSE LET tempSprites == [x \in 1..cols |-> getSpriteAt(sprites, x - 1, index)]
                           shifted == JsSlice(tempSprites, -effectiveAmount, cols)
                                      \o JsSlice(tempSprites, 0, cols - effectiveAmount)
                       IN  [x \in DOMAIN sprites |-> [y \in DOMAIN sprites[x] |->
                              IF y = index + 1 /\ x <= cols
                              THEN setGridData(shifted[x], x - 1, index)
                              ELSE sprites[x][y]]]
        ELSE IF index < 0 \/ index >= cols \/ index + 1 \notin DOMAIN sprites THEN sprites
             ELSE LET effectiveAmount == EffectiveAmount(amount, rows) IN
                  IF effectiveAmount = 0 THEN sprites
                  ELSE LET tempSprites == [y \in 1..rows |-> getSpriteAt(sprites, index, y - 1)]
                           shifted == JsSlice(tempSprites, rows - effectiveAmount, rows)
                                      \o JsSlice(tempSprites, 0, rows - effectiveAmount)
                       IN  [sprites EXCEPT ![index + 1] =
                              [y \in 1..rows |-> setGridData(shifted[y], index, y - 1)]]

\* BoardView.snapDraggedGemsToFinalGridPositions(): every sprite of the array
\* gets the coordinates of its slot.
snapDraggedGemsToFinalGridPositions(sprites) ==
    [x \in DOMAIN sprites |-> [y \in DOMAIN sprites[x] |->
        setGridData(sprites[x][y], x - 1, y - 1)]]

\* The coordinates animateExplosions starts a tween for: the matched cells
\* that hold a sprite.
explosionTweens(sprites, matches) ==
    LET coords == explodedCoords(matches)
    IN  { c \in coords : getSpriteAt(sprites, c[1], c[2]) # NoSprite }

\* BoardView.animateExplosions(matchCoords): gemsSprites with the exploding
\* sprites taken out.
animateExplosions(sprites, matches) ==
    LET coords == explodedCoords(matches)
    IN  [x \in DOMAIN sprites |-> [y \in DOMAIN sprites[x] |->
            IF <<x - 1, y - 1>> \in coords THEN NoSprite ELSE sprites[x][y]]]

\* The rows of column x that hold a sprite.
survivorRows(sprites, rows, x) ==
    { y \in 0..(rows - 1) : getSpriteAt(sprites, x, y) # NoSprite }

\* The slot animateFalls gives the surviving sprite of cell (x, y): the
\* survivors keep their order and fill the column from the bottom.
fallTarget(sprites, rows, x, y) ==
    LET s == survivorRows(sprites, rows, x)
    IN  rows - Cardinality({ z \in s : z >= y })

\* BoardView.animateFalls(replacements, ...): the new gemsSprites.
animateFalls(sprites, cols, rows, replacements) ==
    [i \in 1..cols |->
        LET x == i - 1
            s == survivorRows(sprites, rows, x)
            empty == rows - Cardinality(s)
            typesToSpawn == replacementsFor(replacements, x)
        IN  [j \in 1..rows |->
                LET y == j - 1 IN
                IF y >= empty
                THEN LET from == CHOOSE z \in s : fallTarget(sprites, rows, x, z) = y
                     IN  setGridData(getSpriteAt(sprites, x, from), x, y)
                ELSE IF y < Len(typesToSpawn) /\ i \in DOMAIN sprites
                THEN Sprite(typesToSpawn[y + 1], x, y)
                ELSE NoSprite]]

\* The fall tweens animateFalls starts, as <<x, y, distance>> with (x, y) the
\* slot the sprite falls to: the survivors that change slot, and the new
\* sprites, the i-th of a column starting i + 1 cells above the board edge.
fallTweens(sprites, cols, rows, replacements) ==
    LET cells == (0..(cols - 1)) \X (0..(rows - 1))
        moved == { c \in cells : /\ c[2] \in survivorRows(sprites, rows, c[1])
                                 /\ fallTarget(sprites, rows, c[1], c[2]) # c[2] }
        spawned == { c \in cells :
                       /\ c[1] + 1 \in DOMAIN sprites
                       /\ c[2] < rows - Cardinality(survivorRows(sprites, rows, c[1]))
                       /\ c[2] < Len(replacementsFor(replacements, c[1])) }
    IN  { <<c[1], fallTarget(sprites, rows, c[1], c[2]),
            fallTarget(sprites, rows, c[1], c[2]) - c[2]>> : c \in moved }
        \cup { <<c[1], c[2], 2 * c[2] + 2>> : c \in spawned }

(* ------------------------- the engine's interface ----------------------- *)

Call(op, args, ret) == [op |-> op, args |-> args, ret |-> ret]

\* The moves a caller submits: both axes, every line, one step either way.
Moves ==
    { MoveAction(a, i, n) : a \in {"row"}, i \in 0..(height - 1), n \in {1, -1} }
    \cup { MoveAction(a, i, n) : a \in {"col"}, i \in 0..(width - 1), n \in {1, -1} }

\* The action lists handed to getNextExplodeAndReplacePhase: the cascade
\* request (no move) and single moves.
ActionLists == {<<>>} \cup { <<m>> : m \in Moves }

\* Values handed to addNextGemToSpawn: the types and one that is none.
SpawnArgs == Range(gemTypes) \cup {"purple"}

\* Lists handed to addNextGemsToSpawn.
SpawnListArgs == {<<>>} \cup [1..2 -> {gemTypes[1], "purple"}]

\* Values handed to setHabitatInfluence.
InfluenceArgs ==
    { JsNull, JsString, JsArray(<<>>), JsArray(<<Num(100)>>),
      JsArray(<<NaN, Num(1400), Num(900)>>), JsArray(<<Str, NaN>>) }

\* The random streams the engine runs on: those of period up to MaxPeriod.
SeedStreams(types, n) ==
    UNION { PeriodicStreams(types, n, p) : p \in 1..MaxPeriod }

\* The random streams of the engine the scenes construct, long enough for
\* one request.
SceneStreams == SeedStreams(GEM_TYPES, 2 * GRID_DIMS[1] * GRID_DIMS[2])

\* No scene drives the engine: the scene's variables are idle.
NoScene ==
    /\ canMove = FALSE
    /\ isBoardInitialized = FALSE
    /\ drag = NoDrag
    /\ gemsSprites = <<>>
    /\ tasks = <<>>
    /\ inits = 0

\* new BackendPuzzle(GRID_DIMS[1], GRID_DIMS[2])
Init ==
    /\ gemTypes = GEM_TYPES
    /\ width = GRID_DIMS[1]
    /\ height = GRID_DIMS[2]
    /\ \E rnd \in SeedStreams(GEM_TYPES, GRID_DIMS[1] * GRID_DIMS[2]) :
         puzzleState = getInitialPuzzleStateWithNoMatches(
                           GEM_TYPES, GRID_DIMS[1], GRID_DIMS[2], rnd)
    /\ nextGemsToSpawn = <<>>
    /\ habitatInfluence = JsNull
    /\ call = Call("constructor", <<>>, <<>>)
    /\ calls = 0
    /\ NoScene

GetNextExplodeAndReplacePhase ==
    /\ calls < MaxCalls
    /\ \E actions \in ActionLists :
       \E rnd \in SeedStreams(gemTypes, 2 * width * height) :
       \E r \in { getNextExplodeAndReplacePhase(gemTypes, puzzleState, width, height,
                      nextGemsToSpawn, habitatInfluence, actions, rnd) } :
         /\ puzzleState' = r.grid
         /\ nextGemsToSpawn' = r.queue
         /\ call' = Call("getNextExplodeAndReplacePhase", actions, r.phase)
    /\ calls' = calls + 1
    /\ UNCHANGED <<gemTypes, width, height, habitatInfluence>>
    /\ UNCHANGED sceneVars

GetMatchesFromHypotheticalMove ==
    /\ calls < MaxCalls
    /\ \E m \in Moves :
         /\ call' = Call("getMatchesFromHypotheticalMove", <<m>>,
                        getMatchesFromHypotheticalMove(puzzleState, width, height, m))
         /\ puzzleState' = hypotheticalMove(puzzleState, width, height, m).grid
    /\ calls' = calls + 1
    /\ UNCHANGED <<gemTypes, width, height, nextGemsToSpawn, habitatInfluence>>
    /\ UNCHANGED sceneVars

SetHabitatInfluence ==
    /\ calls < MaxCalls
    /\ \E v \in InfluenceArgs :
         /\ habitatInfluence' = setHabitatInfluence(v)
         /\ call' = Call("setHabitatInfluence", <<v>>, <<>>)
    /\ calls' = calls + 1
    /\ UNCHANGED <<gemTypes, width, height, puzzleState, nextGemsToSpawn>>
    /\ UNCHANGED sceneVars

AddNextGemToSpawn ==
    /\ calls < MaxCalls
    /\ Len(nextGemsToSpawn) < MaxQueue
    /\ \E t \in SpawnArgs :
         /\ nextGemsToSpawn' = Append(nextGemsToSpawn, t)
         /\ call' = Call("addNextGemToSpawn", <<t>>, <<>>)
    /\ calls' = calls + 1
    /\ UNCHANGED <<gemTypes, width, height, puzzleState, habitatInfluence>>
    /\ UNCHANGED sceneVars

AddNextGemsToSpawn ==
    /\ calls < MaxCalls
    /\ \E ts \in SpawnListArgs :
         /\ Len(nextGemsToSpawn) + Len(ts) <= MaxQueue
         /\ nextGemsToSpawn' = nextGemsToSpawn \o ts
         /\ call' = Call("addNextGemsToSpawn", ts, <<>>)
    /\ calls' = calls + 1
    /\ UNCHANGED <<gemTypes, width, height, puzzleState, habitatInfluence>>
    /\ UNCHANGED sceneVars

Reset ==
    /\ calls < MaxCalls
    /\ \E rnd \in SeedStreams(gemTypes, width * height) :
       \E r \in { reset(gemTypes, width, height, nextGemsToSpawn,
                        habitatInfluence, rnd) } :
         /\ puzzleState' = r.grid
         /\ nextGemsToSpawn' = r.queue
         /\ habitatInfluence' = r.influence
    /\ call' = Call("reset", <<>>, <<>>)
    /\ calls' = calls + 1
    /\ UNCHANGED <<gemTypes, width, height>>
    /\ UNCHANGED sceneVars

Next ==
    \/ GetNextExplodeAndReplacePhase
    \/ GetMatchesFromHypotheticalMove
    \/ SetHabitatInfluence
    \/ AddNextGemToSpawn
    \/ AddNextGemsToSpawn
    \/ Reset

Spec == Init /\ [][Next]_vars

(* ------------------ the cascade loop on the engine ---------------------- *)

\* The last request returned a phase with something to do: the driver
\* (handleCascades) will ask for the next phase.
CascadePending ==
    call.op = "getNextExplodeAndReplacePhase" /\ ~isNothingToDo(call.ret)

\* handleCascades(): getNextExplodeAndReplacePhase([]) after a phase that
\* had something to do.
Cascade ==
    /\ CascadePending
    /\ \E r \in { getNextExplodeAndReplacePhase(gemTypes, puzzleState, width, height,
                      nextGemsToSpawn, habitatInfluence, <<>>, rnd) :
                  rnd \in SceneStreams } :
         /\ puzzleState' = r.grid
         /\ nextGemsToSpawn' = r.queue
         /\ call' = Call("getNextExplodeAndReplacePhase", <<>>, r.phase)
    /\ UNCHANGED <<gemTypes, width, height, habitatInfluence, calls>>
    /\ UNCHANGED sceneVars

\* Any public operation while no cascade is pending; the cascade loop alone
\* while one is.
CascadeNext ==
    \/ ~CascadePending /\ Next
    \/ Cascade

CascadeSpec == Init /\ [][CascadeNext]_vars

(* ------------------- construction on its own (GenSpec) ------------------ *)

\* The token-type arrays and the sizes the constructor is tried with.
GenInputs ==
    { <<GEM_TYPES, 3, 3>>, <<GEM_TYPES, 5, 2>>, <<GEM_TYPES, 2, 5>>,
      <<GEM_TYPES, 1, 4>>, <<GEM_TYPES \o <<"orange">>, 3, 3>> }

\* Before the constructor has run.
GenInit ==
    /\ \E in \in GenInputs : gemTypes = in[1] /\ width = in[2] /\ height = in[3]
    /\ puzzleState = <<>>
    /\ nextGemsToSpawn = <<>>
    /\ habitatInfluence = JsNull
    /\ call = Call("new", <<>>, <<>>)
    /\ calls = 0
    /\ NoScene

\* constructor(width, height), for every outcome of its random picks.
Constructor ==
    /\ call.op = "new"
    /\ IF constructorThrows(width, height)
       THEN /\ puzzleState' = puzzleState
            /\ call' = Call("RangeError", <<>>, <<>>)
       ELSE /\ \E rnd \in RandomStreams(gemTypes, width * height) :
                 puzzleState' = getInitialPuzzleStateWithNoMatches(
                                    gemTypes, width, height, rnd)
            /\ call' = Call("constructor", <<>>, <<>>)
    /\ UNCHANGED <<gemTypes, width, height, nextGemsToSpawn, habitatInfluence, calls>>
    /\ UNCHANGED sceneVars

GenNext == Constructor

GenSpec == GenInit /\ [][GenNext]_vars

(* -------------- construction at the edges (DegenerateSpec) --------------- *)

\* Arrays of one and of two token types.
ONE_TYPE == <<"blue">>
TWO_TYPES == <<"blue", "green">>

\* The constructor's inputs at the edges: fewer than three token types, and
\* sizes that are zero or negative.
DegenerateInputs ==
    { <<ONE_TYPE, 3, 3>>, <<ONE_TYPE, 1, 4>>, <<TWO_TYPES, 3, 3>>,
      <<TWO_TYPES, 4, 3>>, <<TWO_TYPES, 2, 5>> }
    \cup { <<GEM_TYPES, in[1], in[2]>> :
             in \in { <<0, 3>>, <<3, 0>>, <<0, 0>>, <<-1, 3>>, <<3, -1>>,
                      <<-2, -2>>, <<0, -1>> } }

\* Before the constructor has run.
DegenerateInit ==
    /\ \E in \in DegenerateInputs :
         gemTypes = in[1] /\ width = in[2] /\ height = in[3]
    /\ puzzleState = <<>>
    /\ nextGemsToSpawn = <<>>
    /\ habitatInfluence = JsNull
    /\ call = Call("new", <<>>, <<>>)
    /\ calls = 0
    /\ NoScene

DegenerateNext == Constructor

DegenerateSpec == DegenerateInit /\ [][DegenerateNext]_vars

(* ------------------ selection on its own (SelectSpec) -------------------- *)

\* A longer array of token types, with all the types the habitats map to.
SIX_TYPES == <<"blue", "green", "red", "orange", "black", "white">>

\* The influences selection is tried with: none, habitats that map to a
\* token type, to a type that may be no token type (900, 'white'), and to
\* nothing (5).
SelectInfluences ==
    { JsNull, JsArray(<<Num(100)>>), JsArray(<<Num(900)>>), JsArray(<<Num(5)>>),
      JsArray(<<Num(1400), Num(900)>>), JsArray(<<Num(5), Num(400), Num(200)>>) }

\* An engine with an influence set and with or without a queued token.
SelectInit ==
    /\ gemTypes \in {GEM_TYPES, SIX_TYPES}
    /\ width = GRID_DIMS[1]
    /\ height = GRID_DIMS[2]
    /\ puzzleState = getInitialPuzzleStateWithNoMatches(gemTypes, width, height,
                         [i \in 1..(GRID_DIMS[1] * GRID_DIMS[2]) |-> 0])
    /\ nextGemsToSpawn \in {<<>>, <<"purple">>}
    /\ habitatInfluence \in SelectInfluences
    /\ call = Call("constructor", <<>>, <<>>)
    /\ calls = 0
    /\ NoScene

\* getNextGemToSpawnType(), Math.random() returning rnd[1] / Len(gemTypes)
\* and then rnd[2] / Len(gemTypes).
SelectType ==
    /\ calls < MaxSelects
    /\ \E rnd \in PeriodicStreams(gemTypes, 2, 2) :
       \E r \in { getNextGemToSpawnType(gemTypes, nextGemsToSpawn,
                        habitatInfluence, rnd, 1) } :
         /\ nextGemsToSpawn' = r.queue
         /\ call' = Call("getNextGemToSpawnType", rnd, r.type)
    /\ calls' = calls + 1
    /\ UNCHANGED <<gemTypes, width, height, puzzleState, habitatInfluence>>
    /\ UNCHANGED sceneVars

SelectNext == SelectType

SelectSpec == SelectInit /\ [][SelectNext]_vars

(* ---------------- requests with several moves (ListSpec) ----------------- *)

\* The lists of two moves.
MoveLists == { <<m1, m2>> : m1 \in Moves, m2 \in Moves }

\* getNextExplodeAndReplacePhase([m1, m2])
SubmitList ==
    /\ calls < MaxListCalls
    /\ \E actions \in MoveLists :
       \E r \in { getNextExplodeAndReplacePhase(gemTypes, puzzleState, width, height,
                      nextGemsToSpawn, habitatInfluence, actions, rnd) :
                  rnd \in PeriodicStreams(gemTypes, 2 * width * height, 1) } :
         /\ puzzleState' = r.grid
         /\ nextGemsToSpawn' = r.queue
         /\ call' = Call("getNextExplodeAndReplacePhase", actions, r.phase)
    /\ calls' = calls + 1
    /\ UNCHANGED <<gemTypes, width, height, habitatInfluence>>
    /\ UNCHANGED sceneVars

ListNext == SubmitList

ListSpec == Init /\ [][ListNext]_vars

(* ------------- moves on an axis that is none (MalformedSpec) ------------- *)

\* Moves whose rowOrCol is neither 'row' nor 'col', on lines in and out of
\* the grid, by amounts of either sign.
MalformedMoves ==
    { MoveAction(a, i, n) : a \in {"diag", "ROW", ""}, i \in (-1)..width,
                            n \in (-MaxAmount)..MaxAmount }

\* getNextExplodeAndReplacePhase([m]) for such a move m.
SubmitMalformed ==
    /\ calls < MaxListCalls
    /\ \E m \in MalformedMoves :
       \E r \in { getNextExplodeAndReplacePhase(gemTypes, puzzleState, width, height,
                      nextGemsToSpawn, habitatInfluence, <<m>>, rnd) :
                  rnd \in PeriodicStreams(gemTypes, 2 * width * height, 1) } :
         /\ puzzleState' = r.grid
         /\ nextGemsToSpawn' = r.queue
         /\ call' = Call("getNextExplodeAndReplacePhase", <<m>>, r.phase)
    /\ calls' = calls + 1
    /\ UNCHANGED <<gemTypes, width, height, habitatInfluence>>
    /\ UNCHANGED sceneVars

MalformedNext == SubmitMalformed

MalformedSpec == Init /\ [][MalformedNext]_vars

(* ---------------- moves on grids of several shapes (MoveSpec) ------------ *)

\* Five token types, for a line of five different cells.
FIVE_TYPES == <<"A", "B", "C", "D", "E">>

\* The engines the moves are tried on: the token types, the size and the
\* longest period of the random streams of the constructor.
MoveInputs ==
    { <<GEM_TYPES, 3, 3, 4>>, <<GEM_TYPES, 5, 2, 4>>, <<GEM_TYPES, 2, 5, 4>>,
      <<GEM_TYPES, 4, 3, 4>>, <<FIVE_TYPES, 5, 1, 2>> }

\* The amounts of the moves: signed, beyond the length of every line.
MoveAmounts == (-MaxAmount)..MaxAmount

\* The moves, with indices one off either end of the grid as well.
WideMoves ==
    { MoveAction("row", i, n) : i \in (-1)..height, n \in MoveAmounts }
    \cup { MoveAction("col", i, n) : i \in (-1)..width, n \in MoveAmounts }

\* The streams in which Math.random() walks up its range from some start.
RisingStreams(types, n) ==
    { [i \in 1..n |-> (i - 1 + k) % Len(types)] : k \in 0..(Len(types) - 1) }

\* new BackendPuzzle(w, h) for the inputs above.
MoveInit ==
    /\ \E in \in MoveInputs :
         /\ gemTypes = in[1]
         /\ width = in[2]
         /\ height = in[3]
         /\ \E rnd \in RisingStreams(in[1], in[2] * in[3])
                       \cup UNION { PeriodicStreams(in[1], in[2] * in[3], p) :
                                    p \in 1..in[4] } :
              puzzleState = getInitialPuzzleStateWithNoMatches(in[1], in[2], in[3], rnd)
    /\ nextGemsToSpawn = <<>>
    /\ habitatInfluence = JsNull
    /\ call = Call("constructor", <<>>, <<>>)
    /\ calls = 0
    /\ NoScene

\* getNextExplodeAndReplacePhase([m]) for a move m.
SubmitMove ==
    /\ calls < MaxMoveCalls
    /\ \E m \in WideMoves :
       \E r \in { getNextExplodeAndReplacePhase(gemTypes, puzzleState, width, height,
                      nextGemsToSpawn, habitatInfluence, <<m>>, rnd) :
                  rnd \in PeriodicStreams(gemTypes, 2 * width * height, 1) } :
         /\ puzzleState' = r.grid
         /\ nextGemsToSpawn' = r.queue
         /\ call' = Call("getNextExplodeAndReplacePhase", <<m>>, r.phase)
    /\ calls' = calls + 1
    /\ UNCHANGED <<gemTypes, width, height, habitatInfluence>>
    /\ UNCHANGED sceneVars

\* getMatchesFromHypotheticalMove(m) for a move m.
TryMove ==
    /\ calls < MaxMoveCalls
    /\ \E m \in WideMoves :
         /\ call' = Call("getMatchesFromHypotheticalMove", <<m>>,
                        getMatchesFromHypotheticalMove(puzzleState, width, height, m))
         /\ puzzleState' = hypotheticalMove(puzzleState, width, height, m).grid
    /\ calls' = calls + 1
    /\ UNCHANGED <<gemTypes, width, height, nextGemsToSpawn, habitatInfluence>>
    /\ UNCHANGED sceneVars

MoveNext == SubmitMove \/ TryMove

MoveSpec == MoveInit /\ [][MoveNext]_vars

(* ------------ one move on the view and on the model (ViewSpec) ----------- *)

\* The boards the view is created for: the token types and the size.
ViewInputs == { <<GEM_TYPES, 3, 3>>, <<GEM_TYPES, 5, 2>>, <<GEM_TYPES, 2, 5>> }

\* The moves: an axis that is 'row', 'col' or neither, indices one off
\* either end of the grid as well, signed amounts beyond every line.
ViewMoves ==
    { MoveAction("row", i, n) : i \in (-1)..height, n \in MoveAmounts }
    \cup { MoveAction(a, i, n) : a \in {"col", "diag"}, i \in (-1)..width,
                                 n \in MoveAmounts }

\* new BackendPuzzle(w, h) and boardView.createBoard(getGridState()).
ViewInit ==
    /\ \E in \in ViewInputs :
         /\ gemTypes = in[1]
         /\ width = in[2]
         /\ height = in[3]
         /\ \E rnd \in RisingStreams(in[1], in[2] * in[3])
                       \cup PeriodicStreams(in[1], in[2] * in[3], 2) :
              /\ puzzleState = getInitialPuzzleStateWithNoMatches(in[1], in[2], in[3], rnd)
              /\ gemsSprites = createBoard(puzzleState, in[2], in[3])
    /\ nextGemsToSpawn = <<>>
    /\ habitatInfluence = JsNull
    /\ call = Call("constructor", <<>>, <<>>)
    /\ calls = 0
    /\ canMove = FALSE
    /\ isBoardInitialized = TRUE
    /\ drag = NoDrag
    /\ tasks = <<>>
    /\ inits = 0

\* boardView.updateGemsSpritesArrayAfterMove(m) and
\* backendPuzzle.applyMoveToGrid(backendPuzzle.puzzleState, m) for a move m.
MoveViewAndModel ==
    /\ calls < MaxMoveCalls
    /\ \E m \in ViewMoves :
         /\ gemsSprites' = updateGemsSpritesArrayAfterMove(gemsSprites, width, height, m)
         /\ puzzleState' = applyMoveToGrid(puzzleState, width, height, m)
         /\ call' = Call("applyMoveToGrid", <<m>>, <<>>)
    /\ calls' = calls + 1
    /\ UNCHANGED <<gemTypes, width, height, nextGemsToSpawn, habitatInfluence>>
    /\ UNCHANGED <<canMove, isBoardInitialized, drag, tasks, inits>>

ViewNext == MoveViewAndModel

ViewSpec == ViewInit /\ [][ViewNext]_vars

(* ------------- queue, influence and requests together (SpawnSpec) -------- *)

\* The habitat lists set: one that maps to a token type, and one with a
\* habitat (900, 'white') that maps to none of the token types.
SpawnInfluences == { JsArray(<<Num(100)>>), JsArray(<<Num(1400), Num(900)>>) }

\* The lists queued: shorter and longer than the cells a match clears.
SpawnLists == { <<"purple">>, <<"purple", "blue", "purple", "red">> }

\* new BackendPuzzle(GRID_DIMS[1], GRID_DIMS[2]), Math.random() constant.
SpawnInit ==
    /\ gemTypes = GEM_TYPES
    /\ width = GRID_DIMS[1]
    /\ height = GRID_DIMS[2]
    /\ \E rnd \in PeriodicStreams(GEM_TYPES, GRID_DIMS[1] * GRID_DIMS[2], 1) :
         puzzleState = getInitialPuzzleStateWithNoMatches(
                           GEM_TYPES, GRID_DIMS[1], GRID_DIMS[2], rnd)
    /\ nextGemsToSpawn = <<>>
    /\ habitatInfluence = JsNull
    /\ call = Call("constructor", <<>>, <<>>)
    /\ calls = 0
    /\ NoScene

\* setHabitatInfluence(v)
SpawnSetInfluence ==
    /\ calls < MaxSpawnCalls
    /\ \E v \in SpawnInfluences :
         /\ habitatInfluence' = setHabitatInfluence(v)
         /\ call' = Call("setHabitatInfluence", <<v>>, <<>>)
    /\ calls' = calls + 1
    /\ UNCHANGED <<gemTypes, width, height, puzzleState, nextGemsToSpawn>>
    /\ UNCHANGED sceneVars

\* addNextGemsToSpawn(ts) on an empty queue
SpawnQueueGems ==
    /\ calls < MaxSpawnCalls
    /\ nextGemsToSpawn = <<>>
    /\ \E ts \in SpawnLists :
         /\ nextGemsToSpawn' = nextGemsToSpawn \o ts
         /\ call' = Call("addNextGemsToSpawn", ts, <<>>)
    /\ calls' = calls + 1
    /\ UNCHANGED <<gemTypes, width, height, puzzleState, habitatInfluence>>
    /\ UNCHANGED sceneVars

\* getNextExplodeAndReplacePhase(actions)
SpawnRequest ==
    /\ calls < MaxSpawnCalls
    /\ \E actions \in ActionLists :
       \E r \in { getNextExplodeAndReplacePhase(gemTypes, puzzleState, width, height,
                      nextGemsToSpawn, habitatInfluence, actions, rnd) :
                  rnd \in SceneStreams } :
         /\ puzzleState' = r.grid
         /\ nextGemsToSpawn' = r.queue
         /\ call' = Call("getNextExplodeAndReplacePhase", actions, r.phase)
    /\ calls' = calls + 1
    /\ UNCHANGED <<gemTypes, width, height, habitatInfluence>>
    /\ UNCHANGED sceneVars

SpawnNext == SpawnSetInfluence \/ SpawnQueueGems \/ SpawnRequest

SpawnSpec == SpawnInit /\ [][SpawnNext]_vars

(* --------------------- the scene: tasks and tweens ---------------------- *)

\* A pointer-up sequence: what it awaits (pc), the move it submitted, the
\* phase it animates, the explosion tweens (cells) and the fall or snap-back
\* tweens (<<x, y, distance>>) it waits for, whether one of them was killed
\* (the promise then never resolves), whether it ends in
\* `finally { this.canMove = true }`, and the number of phases it has had.
Task(pc, move, phase, explosions, falls, enable, phases) ==
    [pc |-> pc, move |-> move, phase |-> phase, explosions |-> explosions,
     falls |-> falls, stuck |-> FALSE, enable |-> enable, phases |-> phases]

NoMove == MoveAction("row", 0, 0)
NoPhase == ExplodeAndReplacePhase(<<>>, <<>>)
NoTask == Task("none", NoMove, NoPhase, {}, {}, FALSE, 0)

\* A sprite the drag holds: in a cell of gemsSprites, taken out by the
\* explosions of a task (still active), or destroyed.
CellRef(x, y) == [kind |-> "cell", x |-> x, y |-> y, task |-> 0]
ExplodingRef(x, y, i) == [kind |-> "exploding", x |-> x, y |-> y, task |-> i]
GoneRef == [kind |-> "gone", x |-> -1, y |-> -1, task |-> 0]

\* An animateExplosions that resolves without waiting for its tweens.
explosionsResolved_AtOnce(pending) == TRUE

\* Promise.all(explosionPromises) is resolved.
explosionsResolved(pending) == pending = {}

\* An animateFalls that resolves when the first of its tweens completes.
fallsResolved_First(pending) == TRUE

\* fallPromises.length === 0, or Promise.all(fallPromises) is resolved.
fallsResolved(pending) == pending = {}

\* tweens.killTweensOf(sprite) for the sprites of the given cells: a task
\* waiting for one of them waits for ever.
killTweensOf(tks, cells) ==
    [i \in DOMAIN tks |->
        IF \E t \in tks[i].falls : <<t[1], t[2]>> \in cells
        THEN [tks[i] EXCEPT !.stuck = TRUE] ELSE tks[i]]

\* killTweensOf for every sprite of gemsSprites (iterateSprites).
killAllTweens(tks, sprites) ==
    killTweensOf(tks, { c \in (0..(Len(sprites) - 1)) \X (0..(height - 1)) :
                          getSpriteAt(sprites, c[1], c[2]) # NoSprite })

\* The drag's sprites after animateExplosions of task i took the matched
\* sprites out of the array.
dragAfterExplosions(drg, sprites, matches, i) ==
    [drg EXCEPT !.draggingSprites = [k \in DOMAIN @ |->
        IF @[k].kind = "cell" /\ <<@[k].x, @[k].y>> \in explosionTweens(sprites, matches)
        THEN ExplodingRef(@[k].x, @[k].y, i) ELSE @[k]]]

\* The drag's sprites after the explosions of task i completed (the sprites
\* are destroyed) and animateFalls moved the survivors.
dragAfterFalls(drg, sprites, rows, i) ==
    [drg EXCEPT !.draggingSprites = [k \in DOMAIN @ |->
        IF @[k].kind = "exploding" /\ @[k].task = i THEN GoneRef
        ELSE IF @[k].kind = "cell" /\ getSpriteAt(sprites, @[k].x, @[k].y) # NoSprite
        THEN CellRef(@[k].x, fallTarget(sprites, rows, @[k].x, @[k].y))
        ELSE @[k]]]

\* The drag's sprites after destroyBoard().
dragAfterDestroy(drg) ==
    [drg EXCEPT !.draggingSprites = [k \in DOMAIN @ |-> GoneRef]]

\* animatePhase(phaseResult) of task i up to its first pending promise:
\* animateExplosions, and animateFalls at once when no explosion is awaited.
animatePhase(i, move, phaseResult, sprites, drg, n) ==
    LET explosions == explosionTweens(sprites, phaseResult.matches)
        exploded == animateExplosions(sprites, phaseResult.matches)
        drg1 == dragAfterExplosions(drg, sprites, phaseResult.matches, i)
    IN  IF explosionsResolved(explosions)
        THEN [sprites |-> animateFalls(exploded, width, height, phaseResult.replacements),
              task |-> Task("falls", move, phaseResult, explosions,
                            fallTweens(exploded, width, height,
                                       phaseResult.replacements), TRUE, n),
              drag |-> dragAfterFalls(drg1, exploded, height, 0)]
        ELSE [sprites |-> exploded,
              task |-> Task("explosions", move, phaseResult, explosions, {}, TRUE, n),
              drag |-> drg1]

\* The random streams that make a difference to the request: no random
\* number is drawn when the grid has no match after the actions.
RefillStreams(actions) ==
    IF getMatches(applyMoves(puzzleState, width, height, actions), width, height) = <<>>
    THEN {CHOOSE rnd \in SceneStreams : TRUE} ELSE SceneStreams

\* backendPuzzle.getNextExplodeAndReplacePhase(actions) by task i, then
\* animatePhase when there is something to do; otherwise the sequence ends
\* in `finally { this.canMove = true }`.  cm is canMove while it goes on,
\* n the number of phases the sequence has had.
RequestPhase(i, move, actions, sprites, tks, drg, cm, n) ==
    \E r \in { getNextExplodeAndReplacePhase(gemTypes, puzzleState, width, height,
                    nextGemsToSpawn, habitatInfluence, actions, rnd) :
                 rnd \in RefillStreams(actions) } :
       \E a \in { animatePhase(i, move, r.phase, sprites, drg, n + 1) } :
           /\ isNothingToDo(r.phase) \/ n < MaxPhases
           /\ puzzleState' = r.grid
           /\ nextGemsToSpawn' = r.queue
           /\ call' = Call("getNextExplodeAndReplacePhase", actions, r.phase)
           /\ IF isNothingToDo(r.phase)
              THEN /\ gemsSprites' = sprites
                   /\ tasks' = [tks EXCEPT ![i] = NoTask]
                   /\ drag' = drg
                   /\ canMove' = TRUE
              ELSE /\ gemsSprites' = a.sprites
                   /\ tasks' = [(IF a.task.pc = "falls"
                                 THEN killAllTweens(tks, a.sprites) ELSE tks)
                                EXCEPT ![i] = a.task]
                   /\ drag' = a.drag
                   /\ canMove' = cm

\* The explosion tweens of task i complete (onComplete destroys the sprites),
\* Promise.all resolves and animatePhase goes on with animateFalls.
ExplosionsComplete(i) ==
    /\ tasks[i].pc = "explosions" /\ ~tasks[i].stuck
    /\ gemsSprites' = animateFalls(gemsSprites, width, height, tasks[i].phase.replacements)
    /\ tasks' = [killAllTweens(tasks, gemsSprites') EXCEPT ![i] =
                    [tasks[i] EXCEPT !.pc = "falls", !.explosions = {},
                        !.falls = fallTweens(gemsSprites, width, height,
                                             tasks[i].phase.replacements)]]
    /\ drag' = dragAfterFalls(drag, gemsSprites, height, i)
    /\ UNCHANGED <<engineVars, call, calls, canMove, isBoardInitialized, inits>>

\* The fall tweens of task i that end next: those of the shortest distance.
nextFalls(pending) ==
    { t \in pending : \A u \in pending : t[3] <= u[3] }

\* Fall tweens of task i complete; when all have, animatePhase returns and
\* handleCascades() asks the engine for the next phase.
FallsComplete(i) ==
    /\ tasks[i].pc = "falls" /\ ~tasks[i].stuck
    /\ LET rest == tasks[i].falls \ nextFalls(tasks[i].falls) IN
       IF fallsResolved(rest)
       THEN /\ RequestPhase(i, tasks[i].move, <<>>, gemsSprites, tasks, drag, canMove,
                            tasks[i].phases)
            /\ UNCHANGED <<gemTypes, width, height, habitatInfluence, calls,
                           isBoardInitialized, inits>>
       ELSE /\ tasks' = [tasks EXCEPT ![i].falls = rest]
            /\ UNCHANGED <<engineVars, call, calls, canMove, isBoardInitialized,
                           drag, gemsSprites, inits>>

\* The snap-back tweens of task i complete and snapBack() resolves.
SnapBackComplete(i) ==
    /\ tasks[i].pc = "snapBack" /\ ~tasks[i].stuck
    /\ tasks' = [tasks EXCEPT ![i] = NoTask]
    /\ canMove' = IF tasks[i].enable THEN TRUE ELSE canMove
    /\ UNCHANGED <<engineVars, call, calls, isBoardInitialized, drag, gemsSprites, inits>>

\* handleResize(): updateVisualLayout kills the tweens of every sprite of
\* gemsSprites and starts layout tweens.
handleResize ==
    /\ tasks' = killAllTweens(tasks, gemsSprites)
    /\ UNCHANGED <<engineVars, call, calls, canMove, isBoardInitialized, drag,
                   gemsSprites, inits>>

(* ------------------- the Game scene (scenes/Game.js) -------------------- *)

\* MOVE_THRESHOLD of game/constants.js in half cells, the unit of the
\* pointer displacements below: half a cell commits a move.
MOVE_THRESHOLD == 1

\* Displacements of the pointer between down and up along the drag axis, in
\* half cells: up to a cell and a half either way, and beyond the length of
\* every line.
PointerDeltas == (-3..3) \cup {-6, 5}

\* Positions of the pointer when it goes down, in half cells from the
\* corner of the board: the diagonal, from just outside the corner to the
\* far edges.
DownPoints ==
    { <<p, p>> : p \in (-1)..(2 * (IF GRID_DIMS[1] < GRID_DIMS[2]
                                    THEN GRID_DIMS[1] ELSE GRID_DIMS[2])) }

\* boardRect.contains(worldX, worldY): the edges belong to the rectangle.
boardContains(px, py) ==
    /\ 0 <= px /\ px <= 2 * GRID_DIMS[1]
    /\ 0 <= py /\ py <= 2 * GRID_DIMS[2]

\* Math.floor((world - boardOffset) / gemSize)
gridCoordinate(p) == p \div 2

\* The cells the pointer goes down on: the diagonal, which meets every row
\* and every column.
DownCells == { <<c, c>> : c \in 0..((IF GRID_DIMS[1] < GRID_DIMS[2] THEN GRID_DIMS[1] ELSE GRID_DIMS[2]) - 1) }

\* Math.round(d / 2): halves round towards plus infinity.
MathRound(d) == (d + 1) \div 2

\* Clamp that lets every value through.
Clamp_None(v, lo, hi) == v

\* Phaser.Math.Clamp(v, lo, hi)
Clamp(v, lo, hi) == IF v < lo THEN lo ELSE IF v > hi THEN hi ELSE v

\* calculateMoveAction(deltaX, deltaY, direction, startGridX, startGridY),
\* d being the displacement along the direction.
calculateMoveAction(d, direction, startGridX, startGridY) ==
    LET index == IF direction = "row" THEN startGridY ELSE startGridX
        amount == IF (IF d < 0 THEN -d ELSE d) >= MOVE_THRESHOLD THEN MathRound(d) ELSE 0
        limit == IF direction = "row" THEN width ELSE height
    IN  MoveAction(direction, index, Clamp(amount, -(limit - 1), limit - 1))

\* The cells of the dragged line that hold a sprite, in the order of the
\* collecting loop of handlePointerMove.
lineSprites(sprites, direction, startX, startY) ==
    LET limit == IF direction = "row" THEN width ELSE height
        cells == [i \in 1..limit |->
                    IF direction = "row" THEN <<i - 1, startY>> ELSE <<startX, i - 1>>]
    IN  SelectSeq(cells, LAMBDA c : getSpriteAt(sprites, c[1], c[2]) # NoSprite)

\* The drag after handlePointerMove fixed its direction and collected the
\* sprites of the line.
collectDrag(drg, sprites, direction) ==
    LET line == lineSprites(sprites, direction, drg.dragStartX, drg.dragStartY) IN
    [drg EXCEPT !.dragDirection = direction,
                !.draggingSprites = [k \in DOMAIN line |-> CellRef(line[k][1], line[k][2])],
                !.dragStartSpritePositions = line]

\* The indices of the sprites snapBack animates: active, with a start position.
snapped(refs, positions) ==
    { k \in DOMAIN refs : refs[k].kind # "gone" /\ k \in DOMAIN positions }

\* The tweens snapBack starts: one per animated sprite, on its cell of the
\* array or (for a sprite taken out by an explosion) off the array.
snapBackTweens(refs, positions) ==
    { IF refs[k].kind = "cell" THEN <<refs[k].x, refs[k].y, 0>> ELSE <<-1, k, 0>> :
        k \in snapped(refs, positions) }

\* BoardView.snapBack(spritesToSnap, startPositions): gemsSprites with the
\* data of the animated sprites set back to their start cells.
snapBack(sprites, refs, positions) ==
    [x \in DOMAIN sprites |-> [y \in DOMAIN sprites[x] |->
        IF \E k \in snapped(refs, positions) : refs[k] = CellRef(x - 1, y - 1)
        THEN LET k == CHOOSE k \in snapped(refs, positions) : refs[k] = CellRef(x - 1, y - 1)
             IN  setGridData(sprites[x][y], positions[k][1], positions[k][2])
        ELSE sprites[x][y]]]

\* The tasks after snapBack killed the tweens of the sprites it animates.
snapBackKills(tks, refs, positions) ==
    LET cells == { <<refs[k].x, refs[k].y>> :
                     k \in { j \in snapped(refs, positions) : refs[j].kind = "cell" } }
        owners == { refs[k].task :
                     k \in { j \in snapped(refs, positions) : refs[j].kind = "exploding" } }
        tks1 == killTweensOf(tks, cells)
    IN  [i \in DOMAIN tks |->
            IF i \in owners /\ tks1[i].pc = "explosions"
            THEN [tks1[i] EXCEPT !.stuck = TRUE] ELSE tks1[i]]

\* ProcessMove that commits the move whatever its amount.
ProcessMove_Always(i, moveAction, refs, positions) ==
    \E moved \in { snapDraggedGemsToFinalGridPositions(
                      updateGemsSpritesArrayAfterMove(gemsSprites, width, height,
                                                      moveAction)) } :
        /\ RequestPhase(i, moveAction, <<moveAction>>, moved,
                        killAllTweens(tasks, moved), NoDrag, FALSE, 0)
        /\ UNCHANGED <<gemTypes, width, height, habitatInfluence>>

\* The try block of handlePointerUp / processPointerUp for task i: commit the
\* move and animate its results, or snap back when the amount is 0.
ProcessMove(i, moveAction, refs, positions) ==
    IF moveAction.amount # 0
    THEN \E moved \in { snapDraggedGemsToFinalGridPositions(
                             updateGemsSpritesArrayAfterMove(gemsSprites, width, height,
                                                             moveAction)) } :
             /\ RequestPhase(i, moveAction, <<moveAction>>, moved,
                             killAllTweens(tasks, moved), NoDrag, FALSE, 0)
             /\ UNCHANGED <<gemTypes, width, height, habitatInfluence>>
    ELSE LET tweens == snapBackTweens(refs, positions)
             tks == snapBackKills(tasks, refs, positions)
         IN  /\ gemsSprites' = snapBack(gemsSprites, refs, positions)
             /\ drag' = NoDrag
             /\ IF fallsResolved(tweens)
                THEN /\ tasks' = [tks EXCEPT ![i] = NoTask]
                     /\ canMove' = TRUE
                ELSE /\ tasks' = [tks EXCEPT ![i] =
                                    Task("snapBack", moveAction, NoPhase, {}, tweens, TRUE, 0)]
                     /\ canMove' = FALSE
             /\ UNCHANGED <<engineVars, call>>

\* create(): the engine is constructed, the board drawn, input enabled.
GameInit ==
    /\ gemTypes = GEM_TYPES
    /\ width = GRID_DIMS[1]
    /\ height = GRID_DIMS[2]
    /\ \E rnd \in SeedStreams(GEM_TYPES, GRID_DIMS[1] * GRID_DIMS[2]) :
         puzzleState = getInitialPuzzleStateWithNoMatches(
                           GEM_TYPES, GRID_DIMS[1], GRID_DIMS[2], rnd)
    /\ nextGemsToSpawn = <<>>
    /\ habitatInfluence = JsNull
    /\ call = Call("constructor", <<>>, <<>>)
    /\ calls = 0
    /\ canMove = TRUE
    /\ isBoardInitialized = TRUE
    /\ drag = NoDrag
    /\ gemsSprites = createBoard(puzzleState, GRID_DIMS[1], GRID_DIMS[2])
    /\ tasks = [i \in 1..MaxDrags |-> NoTask]
    /\ inits = 0

\* handlePointerDown(pointer), the pointer at (px, py).
handlePointerDown(px, py) ==
    /\ canMove
    /\ calls < MaxDrags
    /\ IF ~boardContains(px, py) THEN UNCHANGED vars
       ELSE /\ drag' = [NoDrag EXCEPT
                          !.isDragging = TRUE,
                          !.dragStartX = Clamp(gridCoordinate(px), 0, GRID_DIMS[1] - 1),
                          !.dragStartY = Clamp(gridCoordinate(py), 0, GRID_DIMS[2] - 1)]
            /\ UNCHANGED <<engineVars, call, calls, canMove, isBoardInitialized,
                           gemsSprites, tasks, inits>>

\* handlePointerUp(pointer), the pointer d half cells from where it went down.
handlePointerUp(d) ==
    IF ~drag.isDragging
    THEN /\ drag' = NoDrag
         /\ UNCHANGED <<engineVars, call, calls, canMove, isBoardInitialized,
                        gemsSprites, tasks, inits>>
    ELSE IF drag.dragDirection = NULL \/ Len(drag.draggingSprites) = 0
    THEN /\ drag' = NoDrag
         /\ canMove' = TRUE
         /\ UNCHANGED <<engineVars, call, calls, isBoardInitialized, gemsSprites,
                        tasks, inits>>
    ELSE /\ ProcessMove(calls + 1,
                        calculateMoveAction(d, drag.dragDirection, drag.dragStartX,
                                            drag.dragStartY),
                        drag.draggingSprites, drag.dragStartSpritePositions)
         /\ calls' = calls + 1
         /\ UNCHANGED <<isBoardInitialized, inits>>

\* handlePointerMove(pointer): the button is down or not, the displacement
\* is past DRAG_THRESHOLD along direction (NULL: not past it), d as above.
handlePointerMove(isDown, direction, d) ==
    /\ drag.isDragging
    /\ canMove
    /\ IF ~isDown THEN handlePointerUp(d)
       ELSE IF drag.dragDirection = NULL /\ direction # NULL
       THEN LET collected == collectDrag(drag, gemsSprites, direction) IN
            IF Len(collected.draggingSprites) = 0
            THEN /\ drag' = NoDrag
                 /\ canMove' = TRUE
                 /\ UNCHANGED <<engineVars, call, calls, isBoardInitialized,
                                gemsSprites, tasks, inits>>
            ELSE /\ drag' = collected
                 /\ tasks' = killTweensOf(tasks, Range(collected.dragStartSpritePositions))
                 /\ UNCHANGED <<engineVars, call, calls, canMove, isBoardInitialized,
                                gemsSprites, inits>>
       ELSE UNCHANGED vars

GameNext ==
    \/ \E p \in DownPoints : handlePointerDown(p[1], p[2])
    \/ \E direction \in {NULL, "row", "col"} : handlePointerMove(TRUE, direction, 0)
    \/ \E d \in {0, 2} : handlePointerMove(FALSE, NULL, d)
    \/ \E d \in PointerDeltas : handlePointerUp(d)
    \/ \E i \in 1..MaxDrags : ExplosionsComplete(i)
    \/ \E i \in 1..MaxDrags : FallsComplete(i)
    \/ \E i \in 1..MaxDrags : SnapBackComplete(i)
    \/ handleResize

GameSpec == GameInit /\ [][GameNext]_vars

(* ------------- the Game scene with failing animations (LiveSpec) --------- *)

\* canMove after a sequence ended without `finally { this.canMove = true }`.
afterFinally_Skipped(enable, cm) == cm

\* canMove after the finally block of a sequence, when the sequence has one.
afterFinally(enable, cm) == IF enable THEN TRUE ELSE cm

\* An animation step of task i throws, or the promise it awaits rejects:
\* the catch block of animatePhase calls syncSpritesToGridPositions, which
\* BoardView does not define, the TypeError reaches the catch block of
\* handlePointerUp, which does the same, and the finally block runs.
AnimationThrows(i) ==
    /\ tasks[i].pc \in {"explosions", "falls", "snapBack"}
    /\ ~tasks[i].stuck
    /\ tasks' = [tasks EXCEPT ![i] = NoTask]
    /\ canMove' = afterFinally(tasks[i].enable, canMove)
    /\ UNCHANGED <<engineVars, call, calls, isBoardInitialized, drag, gemsSprites,
                   inits>>

\* Displacements of the released pointer: none, half a cell and a cell.
LiveDeltas == {-2, 0, 1, 2}

\* The drags followed to their end.
MaxLiveDrags == 1

LiveNext ==
    \/ calls < MaxLiveDrags /\ \E p \in DownPoints : handlePointerDown(p[1], p[2])
    \/ \E direction \in {NULL, "row", "col"} : handlePointerMove(TRUE, direction, 0)
    \/ \E d \in LiveDeltas : handlePointerUp(d)
    \/ \E i \in 1..MaxDrags : ExplosionsComplete(i)
    \/ \E i \in 1..MaxDrags : FallsComplete(i)
    \/ \E i \in 1..MaxDrags : SnapBackComplete(i)
    \/ \E i \in 1..MaxDrags : AnimationThrows(i)
    \/ handleResize

\* Sequence i has had MaxPhases phases and the engine has a further match
\* for it whatever Math.random() returns: the cascade is longer than the
\* phases followed here.
CutOff(i) ==
    /\ tasks[i].phases >= MaxPhases
    /\ \A rnd \in SceneStreams :
          ~isNothingToDo(getNextExplodeAndReplacePhase(gemTypes, puzzleState,
              width, height, nextGemsToSpawn, habitatInfluence, <<>>, rnd).phase)

\* A fall tween of sequence i can complete.
FallsEnabled(i) == tasks[i].pc = "falls" /\ ~tasks[i].stuck /\ ~CutOff(i)

\* Every tween that runs completes, and the continuation of the promise it
\* resolves is run: the tween manager steps every active tween each frame.
\* The third conjunct is the weak fairness of FallsComplete(i) with the
\* condition under which it can happen written out.
LiveFairness ==
    \A i \in 1..MaxDrags :
        /\ WF_vars(ExplosionsComplete(i))
        /\ WF_vars(SnapBackComplete(i))
        /\ ([]<>(~FallsEnabled(i)) \/ []<><<FallsComplete(i)>>_vars)

LiveSpec == GameInit /\ [][LiveNext]_vars /\ LiveFairness

(* ------------- the Game scene that is shut down (ShutdownSpec) ----------- *)

\* boardView and backendPuzzle are set: shutdown() has not run.  destroyBoard
\* leaves gemsSprites empty, and shutdown() drops the view after it.
Running == gemsSprites # <<>>

\* The tasks after shutdown() destroyed the sprites of the board without
\* killing their tweens: the tween of a destroyed sprite goes on to its
\* onComplete, or is dropped by the tween manager (killed), depending on the
\* Phaser build.
destroyedTweens(tks, killed) ==
    [i \in DOMAIN tks |->
        IF killed /\ tks[i].pc \in {"explosions", "falls", "snapBack"}
        THEN [tks[i] EXCEPT !.stuck = TRUE] ELSE tks[i]]

\* shutdown(): the listeners are removed, the board is destroyed, boardView
\* and backendPuzzle are set to null, the drag is reset, canMove is false.
shutdown(killed) ==
    /\ Running
    /\ gemsSprites' = <<>>
    /\ tasks' = destroyedTweens(tasks, killed)
    /\ drag' = NoDrag
    /\ canMove' = FALSE
    /\ UNCHANGED <<engineVars, call, calls, isBoardInitialized, inits>>

\* A promise sequence i awaits resolves after shutdown().  After the
\* explosions animatePhase reads this.boardView.animateFalls of null, the
\* TypeError is caught (this.boardView?.syncSpritesToGridPositions() does
\* nothing) and handleCascades returns at its guard; after the falls
\* handleCascades returns at its guard; after a snap back nothing is left.
\* In each case the sequence ends in the finally block of handlePointerUp.
CompleteAfterShutdown(i) ==
    /\ ~Running
    /\ tasks[i].pc \in {"explosions", "falls", "snapBack"}
    /\ ~tasks[i].stuck
    /\ LET rest == tasks[i].falls \ nextFalls(tasks[i].falls) IN
       IF tasks[i].pc = "explosions" \/ fallsResolved(rest)
       THEN /\ tasks' = [tasks EXCEPT ![i] = NoTask]
            /\ canMove' = afterFinally(tasks[i].enable, canMove)
       ELSE /\ tasks' = [tasks EXCEPT ![i].falls = rest]
            /\ UNCHANGED canMove
    /\ UNCHANGED <<engineVars, call, calls, isBoardInitialized, drag, gemsSprites,
                   inits>>

ShutdownNext ==
    \/ Running /\ LiveNext
    \/ \E killed \in BOOLEAN : shutdown(killed)
    \/ \E i \in 1..MaxDrags : CompleteAfterShutdown(i)

ShutdownSpec == GameInit /\ [][ShutdownNext]_vars

(* ------------- the Game scene fed by the EventBus (part_001) ------------- *)

\* The habitats of the data a 'cesium-location-selected' event carries:
\* none (no data, or data without habitats), or two habitats.
CesiumData == { JsNull, JsArray(<<Num(100), Num(1400)>>) }

\* The Math.random() results the constructor draws for the first board:
\* the middle of the range every time.
CesiumSeed == [i \in 1..(GRID_DIMS[1] * GRID_DIMS[2]) |-> 1]

\* create(): engine and view are constructed, no board is drawn and input
\* is off until the first event.
CesiumInit ==
    /\ gemTypes = GEM_TYPES
    /\ width = GRID_DIMS[1]
    /\ height = GRID_DIMS[2]
    /\ puzzleState = getInitialPuzzleStateWithNoMatches(
                         GEM_TYPES, GRID_DIMS[1], GRID_DIMS[2], CesiumSeed)
    /\ nextGemsToSpawn = <<>>
    /\ habitatInfluence = JsNull
    /\ call = Call("constructor", <<>>, <<>>)
    /\ calls = 0
    /\ canMove = FALSE
    /\ isBoardInitialized = FALSE
    /\ drag = NoDrag
    /\ gemsSprites = <<>>
    /\ tasks = [i \in 1..MaxDrags |-> NoTask]
    /\ inits = 0

\* The tasks after destroyBoard() destroyed the sprites: an explosion tween
\* of a destroyed sprite goes on to its onComplete, or is dropped by the
\* tween manager (killed), depending on the Phaser build.
destroyBoard(tks, killed) ==
    [i \in DOMAIN tks |->
        IF killed /\ tks[i].pc = "explosions" THEN [tks[i] EXCEPT !.stuck = TRUE]
        ELSE tks[i]]

\* initializeBoardFromCesium(data), data.habitats being habitats.
initializeBoardFromCesium(habitats, killed) ==
    /\ inits < MaxInits
    /\ inits' = inits + 1
    /\ IF habitats = JsNull
       THEN /\ canMove' = FALSE
            /\ isBoardInitialized' = FALSE
            /\ UNCHANGED <<engineVars, call, calls, drag, gemsSprites, tasks>>
       ELSE /\ habitatInfluence' = setHabitatInfluence(habitats)
            /\ call' = Call("setHabitatInfluence", <<habitats>>, <<>>)
            /\ tasks' = destroyBoard(killAllTweens(tasks, gemsSprites), killed)
            /\ gemsSprites' = createBoard(puzzleState, width, height)
            /\ drag' = dragAfterDestroy(drag)
            /\ isBoardInitialized' = TRUE
            /\ canMove' = TRUE
            /\ UNCHANGED <<gemTypes, width, height, puzzleState, nextGemsToSpawn, calls>>

\* cancelDrag(reason) of part_001: snap back without waiting, reset the drag.
cancelDrag ==
    /\ IF /\ drag.isDragging
          /\ Len(drag.draggingSprites) > 0
          /\ Len(drag.dragStartSpritePositions) > 0
       THEN /\ gemsSprites' = snapBack(gemsSprites, drag.draggingSprites,
                                       drag.dragStartSpritePositions)
            /\ tasks' = snapBackKills(tasks, drag.draggingSprites,
                                      drag.dragStartSpritePositions)
       ELSE UNCHANGED <<gemsSprites, tasks>>
    /\ drag' = NoDrag
    /\ UNCHANGED <<engineVars, call, calls, canMove, isBoardInitialized, inits>>

\* handlePointerDown(pointer) of part_001.
handlePointerDown_Cesium(x, y) ==
    /\ canMove
    /\ isBoardInitialized
    /\ calls < MaxDrags
    /\ drag' = [NoDrag EXCEPT !.isDragging = TRUE, !.dragStartX = x, !.dragStartY = y]
    /\ UNCHANGED <<engineVars, call, calls, canMove, isBoardInitialized, gemsSprites,
                   tasks, inits>>

\* handlePointerMove(pointer) of part_001.
handlePointerMove_Cesium(isDown, direction) ==
    /\ drag.isDragging
    /\ IF ~canMove \/ ~isBoardInitialized THEN cancelDrag
       ELSE IF ~isDown THEN cancelDrag
       ELSE IF drag.dragDirection = NULL /\ direction # NULL
       THEN LET collected == collectDrag(drag, gemsSprites, direction) IN
            IF Len(collected.draggingSprites) = 0
            THEN /\ drag' = NoDrag
                 /\ UNCHANGED <<engineVars, call, calls, canMove, isBoardInitialized,
                                gemsSprites, tasks, inits>>
            ELSE /\ drag' = collected
                 /\ tasks' = killTweensOf(tasks, Range(collected.dragStartSpritePositions))
                 /\ UNCHANGED <<engineVars, call, calls, canMove, isBoardInitialized,
                                gemsSprites, inits>>
       ELSE UNCHANGED vars

\* processPointerUp(moveAction, dSprites, dStartPositions) as task i.
processPointerUp(i, moveAction, dSprites, dStartPositions) ==
    IF ~canMove
    THEN LET tweens == snapBackTweens(dSprites, dStartPositions) IN
         /\ gemsSprites' = snapBack(gemsSprites, dSprites, dStartPositions)
         /\ tasks' = [snapBackKills(tasks, dSprites, dStartPositions) EXCEPT ![i] =
                         IF fallsResolved(tweens) THEN NoTask
                         ELSE Task("snapBack", moveAction, NoPhase, {}, tweens, FALSE, 0)]
         /\ drag' = NoDrag
         /\ UNCHANGED <<engineVars, call, canMove>>
    ELSE ProcessMove(i, moveAction, dSprites, dStartPositions)

\* handlePointerUp(pointer) of part_001.
handlePointerUp_Cesium(d) ==
    IF ~drag.isDragging
    THEN /\ drag' = NoDrag
         /\ UNCHANGED <<engineVars, call, calls, canMove, isBoardInitialized,
                        gemsSprites, tasks, inits>>
    ELSE IF ~isBoardInitialized THEN cancelDrag
    ELSE IF drag.dragDirection = NULL \/ Len(drag.draggingSprites) = 0
    THEN /\ drag' = NoDrag
         /\ UNCHANGED <<engineVars, call, calls, canMove, isBoardInitialized,
                        gemsSprites, tasks, inits>>
    ELSE /\ processPointerUp(calls + 1,
                             calculateMoveAction(d, drag.dragDirection, drag.dragStartX,
                                                 drag.dragStartY),
                             drag.draggingSprites, drag.dragStartSpritePositions)
         /\ calls' = calls + 1
         /\ UNCHANGED <<isBoardInitialized, inits>>

\* The pointer's travel on release, in half cells: none, or one cell.
CesiumDeltas == {0, 2}

CesiumNext ==
    \/ \E habitats \in CesiumData, killed \in BOOLEAN :
         initializeBoardFromCesium(habitats, killed)
    \/ \E c \in DownCells : handlePointerDown_Cesium(c[1], c[2])
    \/ \E isDown \in BOOLEAN, direction \in {NULL, "row", "col"} :
         handlePointerMove_Cesium(isDown, direction)
    \/ \E d \in CesiumDeltas : handlePointerUp_Cesium(d)
    \/ \E i \in 1..MaxDrags : ExplosionsComplete(i)
    \/ \E i \in 1..MaxDrags : FallsComplete(i)
    \/ \E i \in 1..MaxDrags : SnapBackComplete(i)
    \/ handleResize

CesiumSpec == CesiumInit /\ [][CesiumNext]_vars

(* ------------------------------ properties ------------------------------ *)

\* Three equal, non-null cells in a row or in a column of the grid.
HasRun(grid) ==
    \E i \in DOMAIN grid : \E j \in DOMAIN grid[i] :
       /\ grid[i][j] # NULL
       /\ \/ /\ j + 2 \in DOMAIN grid[i]
             /\ grid[i][j + 1] = grid[i][j] /\ grid[i][j + 2] = grid[i][j]
          \/ /\ i + 2 \in DOMAIN grid
             /\ j \in DOMAIN grid[i + 1] /\ j \in DOMAIN grid[i + 2]
             /\ grid[i + 1][j] = grid[i][j] /\ grid[i + 2][j] = grid[i][j]

\* C1: the grid the constructor builds has no run of three or more equal
\* tokens horizontally or vertically, for every size tried, every array of
\* at least three types and every outcome of the random picks.
C1_ConstructedGridHasNoRun ==
    call.op = "constructor" => ~HasRun(puzzleState)

\* A constructed 3 x 3 grid of three types where both filters acted on the
\* last cell: two equal cells above it, two other equal cells to its left.
C1_Witness ==
    /\ call.op = "constructor" /\ width = 3 /\ height = 3 /\ Len(gemTypes) = 3
    /\ puzzleState[3][1] = puzzleState[3][2]
    /\ puzzleState[1][3] = puzzleState[2][3]
    /\ puzzleState[3][1] # puzzleState[1][3]

\* The distinct cells of column x that the matches of a phase cover.
MatchedCellsOfColumn(matches, x) ==
    { c \in UNION { Range(matches[i]) : i \in DOMAIN matches } : c[1] = x }

\* The replacement types a phase lists for column x.
ReplacementsOfColumn(replacements, x) ==
    IF \E i \in DOMAIN replacements : replacements[i][1] = x
    THEN replacements[CHOOSE i \in DOMAIN replacements : replacements[i][1] = x][2]
    ELSE <<>>

\* C2: in the phase getNextExplodeAndReplacePhase returns, every column gets
\* as many replacement types as it has distinct matched cells, and after the
\* commit every column has `height` cells again.
C2_ReplacementsEqualMatchedCells ==
    call.op = "getNextExplodeAndReplacePhase" =>
        \A x \in 0..(width - 1) :
           /\ Len(ReplacementsOfColumn(call.ret.replacements, x))
                = Cardinality(MatchedCellsOfColumn(call.ret.matches, x))
           /\ Len(puzzleState[x + 1]) = height

\* A phase in which two matches share a cell.
C2_Witness ==
    /\ call.op = "getNextExplodeAndReplacePhase"
    /\ \E i, j \in DOMAIN call.ret.matches :
          i # j /\ Range(call.ret.matches[i]) \cap Range(call.ret.matches[j]) # {}

\* The grid is width columns of height cells, none of them null.
WellFormed(grid) ==
    /\ Len(grid) = width
    /\ \A i \in DOMAIN grid :
          Len(grid[i]) = height /\ \A j \in DOMAIN grid[i] : grid[i][j] # NULL

\* A step of getNextExplodeAndReplacePhase builds every column with exactly
\* `height` cells, so that neither the padding nor the truncation acts.
NoPadding ==
    (calls' = calls + 1 /\ call'.op = "getNextExplodeAndReplacePhase") =>
        \A x \in 0..(width - 1) :
           Len(newColumn(applyMoves(puzzleState, width, height, call'.args),
                         call'.ret, x)) = height

\* C3: after every sequence of public operations the grid is width columns
\* of height cells and holds no null cell, and the null-padding branch of
\* the commit is never taken.
C3_GridStaysFull == []WellFormed(puzzleState) /\ [][NoPadding]_vars

\* A cascade request (no move) found matches and committed a second phase.
C3_Witness ==
    /\ calls = 2
    /\ call.op = "getNextExplodeAndReplacePhase"
    /\ Len(call.ret.matches) > 0
    /\ Len(call.args) = 0

\* No pointer-up sequence is in flight on an initialised board.
Quiescent ==
    /\ isBoardInitialized
    /\ \A i \in DOMAIN tasks : tasks[i].pc = "none"

\* verifyBoardState(): the cells it counts as mismatches, and the cells the
\* model fills for which the view holds no sprite.
verifyBoardState(grid, sprites) ==
    { c \in (0..(width - 1)) \X (0..(height - 1)) :
        LET modelGem == CellAt(grid, c[1], c[2])
            viewSprite == getSpriteAt(sprites, c[1], c[2])
        IN  IF modelGem \in {NULL, UNDEF} THEN viewSprite # NoSprite
            ELSE viewSprite # Sprite(modelGem, c[1], c[2]) }

\* C8: in every quiescent state of the scene every cell of the view
\* holds a sprite with the model's gemType and with gridX / gridY equal to
\* its slot: verifyBoardState finds no mismatch.
C8_ViewMatchesModel ==
    Quiescent =>
        /\ WellFormed(puzzleState)
        /\ verifyBoardState(puzzleState, gemsSprites) = {}

\* C9: no sequence is in its fall step while an explosion tween of the phase
\* it animates is pending.
C9_FallsAfterExplosions ==
    \A i \in DOMAIN tasks : tasks[i].pc = "falls" => tasks[i].explosions = {}

\* A sequence waits for the fall tweens of a phase that had explosions.
C9_Witness ==
    \E i \in DOMAIN tasks :
       /\ tasks[i].pc = "falls"
       /\ tasks[i].falls # {}
       /\ Len(tasks[i].phase.matches) > 0

\* Task i asks the engine for the next phase in this step.
RequestsNextPhase(i) ==
    /\ tasks[i].pc \in {"explosions", "falls"}
    /\ tasks'[i].pc = "none" \/ tasks'[i].phases > tasks[i].phases

\* C10: a sequence asks the engine for the next cascade phase only in a step
\* in which the last fall tweens of its phase complete, the explosion tweens
\* having completed before.
C10_NextPhaseAfterAnimations ==
    [][\A i \in DOMAIN tasks :
          RequestsNextPhase(i) =>
             /\ tasks[i].pc = "falls"
             /\ tasks[i].explosions = {}
             /\ \A t, u \in tasks[i].falls : t[3] = u[3]]_vars

\* A second phase is being animated: the cascade request that followed the
\* animations of the first phase found matches.
C10_Witness ==
    \E i \in DOMAIN tasks :
       /\ tasks[i].phases = 2
       /\ tasks[i].pc = "explosions"
       /\ call.op = "getNextExplodeAndReplacePhase"
       /\ Len(call.args) = 0

\* A cascade is pending and the next request, whatever Math.random()
\* returns, gives the same phase and leaves the same grid and queue: the
\* loop of requests goes round for ever.
CascadeDiverges ==
    /\ CascadePending
    /\ \A rnd \in SceneStreams :
          getNextExplodeAndReplacePhase(gemTypes, puzzleState, width, height,
              nextGemsToSpawn, habitatInfluence, <<>>, rnd)
          = [phase |-> call.ret, grid |-> puzzleState, queue |-> nextGemsToSpawn]

\* C4: repeating the cascade request reaches a phase with nothing to do; no
\* reachable state has a pending cascade that every further request
\* reproduces.
C4_CascadeTerminates == ~CascadeDiverges

\* Sequence i has submitted its move and waits for an animation that goes on.
InFlight(i) ==
    tasks[i].pc \in {"explosions", "falls"} /\ ~tasks[i].stuck

\* C5: canMove is false as long as a move sequence is in flight.
C5_NoInputInFlight ==
    \A i \in DOMAIN tasks : InFlight(i) => ~canMove

\* This step is a pointer-up that hands a player move to the engine.
SubmitsMove ==
    /\ calls' = calls + 1
    /\ call'.op = "getNextExplodeAndReplacePhase"
    /\ Len(call'.args) = 1
    /\ tasks'[calls'].pc # "snapBack"

\* C6: no player move is handed to the engine while a move sequence is in
\* flight.
C6_SequencesSerialized ==
    [][SubmitsMove => \A i \in DOMAIN tasks : ~InFlight(i)]_vars

\* C7: whenever the board is initialised and canMove is true the model grid
\* holds no run of three or more.
C7_InputOnlyWhenSettled ==
    (isBoardInitialized /\ canMove) => getMatches(puzzleState, width, height) = <<>>

(* ----------------------------- moves (C11 ..) ---------------------------- *)

\* This step is a call getNextExplodeAndReplacePhase([m]) with one move.
SubmitsOneMove ==
    /\ calls' = calls + 1
    /\ call'.op = "getNextExplodeAndReplacePhase"
    /\ Len(call'.args) = 1

\* The index of move m is one of its axis' lines.
InRange(m) ==
    IF m.rowOrCol = "row" THEN m.index \in 0..(height - 1)
    ELSE m.index \in 0..(width - 1)

\* The grid in which the line of move m is shifted with wraparound: the cell
\* at position k of the line comes from position (k - amount) mod length.
ShiftedGrid(grid, m) ==
    [i \in 1..width |-> [j \in 1..height |->
        IF m.rowOrCol = "row" /\ j - 1 = m.index
        THEN grid[((i - 1 - m.amount) % width) + 1][j]
        ELSE IF m.rowOrCol = "col" /\ i - 1 = m.index
        THEN grid[i][((j - 1 - m.amount) % height) + 1]
        ELSE grid[i][j]]]

\* C11: a move on an in-range line moves the cell at position k of the line
\* to position (k + amount) mod length, for every signed amount: the matches
\* returned are those of the shifted grid, and the shifted grid is what a
\* call without matches leaves.
C11_MoveShiftsLine ==
    [][(SubmitsOneMove /\ InRange(call'.args[1])) =>
          LET shifted == ShiftedGrid(puzzleState, call'.args[1]) IN
          /\ call'.ret.matches = getMatches(shifted, width, height)
          /\ isNothingToDo(call'.ret) => puzzleState' = shifted]_vars

\* Amount 2 on the row [A, B, C, D, E] has given [D, E, A, B, C].
C11_Witness ==
    /\ call.op = "getNextExplodeAndReplacePhase"
    /\ call.args = <<MoveAction("row", 0, 2)>>
    /\ puzzleState = << <<"D">>, <<"E">>, <<"A">>, <<"B">>, <<"C">> >>

\* The move that undoes m: same line, amount negated.
Inverse(m) == MoveAction(m.rowOrCol, m.index, -m.amount)

\* getNextExplodeAndReplacePhase([Inverse(m)]) called in the state with grid
\* `grid`, the other fields being the current ones.
UndoFrom(grid, m) ==
    getNextExplodeAndReplacePhase(gemTypes, grid, width, height, nextGemsToSpawn,
        habitatInfluence, <<Inverse(m)>>,
        CHOOSE rnd \in PeriodicStreams(gemTypes, 2 * width * height, 1) : TRUE)

\* C12: when a move on an in-range line produced no match, the call with
\* the inverse move, if it produces no match either, leaves the grid that
\* was there before the move.
C12_InverseRestores ==
    [][(SubmitsOneMove /\ InRange(call'.args[1]) /\ isNothingToDo(call'.ret)) =>
          LET back == UndoFrom(puzzleState', call'.args[1]) IN
          isNothingToDo(back.phase) => back.grid = puzzleState]_vars

\* A move that changed the grid without a match, and whose inverse finds no
\* match either.
C12_Witness ==
    /\ call.op = "getNextExplodeAndReplacePhase"
    /\ Len(call.args) = 1
    /\ InRange(call.args[1])
    /\ isNothingToDo(call.ret)
    /\ LET back == UndoFrom(puzzleState, call.args[1]) IN
       /\ isNothingToDo(back.phase)
       /\ back.grid # puzzleState

\* Move m does nothing: its index is off its axis, or its amount is 0 modulo
\* the length of the line.
IsNoOp(m) ==
    \/ ~InRange(m)
    \/ m.amount % (IF m.rowOrCol = "row" THEN width ELSE height) = 0

\* C13: a move whose index is out of range or whose amount is 0 modulo the
\* length of the line leaves the grid as it was: applyMoveToGrid returns the
\* grid it was given, and the call that submits the move to a grid without a
\* match returns normally, with nothing to do and the grid unchanged.
C13_NoOpMoveKeepsGrid ==
    [][(SubmitsOneMove /\ IsNoOp(call'.args[1])) =>
          /\ applyMoveToGrid(puzzleState, width, height, call'.args[1])
                = puzzleState
          /\ getMatches(puzzleState, width, height) = <<>> =>
                /\ puzzleState' = puzzleState
                /\ isNothingToDo(call'.ret)]_vars

\* A move by a non-zero amount on a line one off the end of the grid was
\* submitted.
C13_Witness ==
    /\ call.op = "getNextExplodeAndReplacePhase"
    /\ Len(call.args) = 1
    /\ ~InRange(call.args[1])
    /\ call.args[1].index >= 0
    /\ call.args[1].amount = 1

(* -------------------------- match detection (C14) ------------------------ *)

\* The cells (x + i dx, y + i dy), i < n, in increasing order.
LineOfCells(x, y, dx, dy, n) == [i \in 1..n |-> <<x + (i - 1) * dx, y + (i - 1) * dy>>]

\* The maximal runs of three or more equal token types of grid g in direction
\* (dx, dy): n equal cells from (x, y) on, with no equal cell before or after.
MaximalRuns(g, dx, dy) ==
    { LineOfCells(t[1], t[2], dx, dy, t[3]) :
        t \in { u \in (0..(width - 1)) \X (0..(height - 1)) \X (3..(width + height)) :
                  LET type == getGemType(g, u[1], u[2]) IN
                  /\ Truthy(type)
                  /\ u[1] + (u[3] - 1) * dx < width
                  /\ u[2] + (u[3] - 1) * dy < height
                  /\ \A i \in 0..(u[3] - 1) :
                        getGemType(g, u[1] + i * dx, u[2] + i * dy) = type
                  /\ getGemType(g, u[1] - dx, u[2] - dy) # type
                  /\ getGemType(g, u[1] + u[3] * dx, u[2] + u[3] * dy) # type } }

\* Match m runs down a column.
IsVertical(m) == \A i \in DOMAIN m : m[i][1] = m[1][1]

\* C14: the matches getMatches returns for the grid of a hypothetical move
\* are exactly the maximal vertical and horizontal runs of three or more,
\* each once with its cells in increasing order; two matches of one axis
\* share no cell.
C14_MatchesAreMaximalRuns ==
    call.op = "getMatchesFromHypotheticalMove" =>
       LET g == applyMoveToGrid(puzzleState, width, height, call.args[1])
           matches == call.ret
           runs == MaximalRuns(g, 0, 1) \cup MaximalRuns(g, 1, 0)
       IN  /\ Range(matches) = runs
           /\ Len(matches) = Cardinality(runs)
           /\ \A i, j \in DOMAIN matches :
                 (i # j /\ IsVertical(matches[i]) = IsVertical(matches[j]))
                    => Range(matches[i]) \cap Range(matches[j]) = {}

\* A hypothetical move gives a vertical and a horizontal match that cross.
C14_Witness ==
    /\ call.op = "getMatchesFromHypotheticalMove"
    /\ \E i, j \in DOMAIN call.ret :
          /\ i # j
          /\ Range(call.ret[i]) \cap Range(call.ret[j]) # {}

(* ------------------------- phases (C15 ..) ------------------------------- *)

\* This step is a call of getNextExplodeAndReplacePhase.
RequestsPhase ==
    /\ calls' = calls + 1
    /\ call'.op = "getNextExplodeAndReplacePhase"

\* The grid after the moves of a list of at most one action.
MovedGrid(grid, actions) ==
    IF actions = <<>> \/ IsNoOp(actions[1]) THEN grid
    ELSE ShiftedGrid(grid, actions[1])

\* C15: a request that finds no match after the moves returns a phase with
\* no matches and no replacements, which isNothingToDo; it leaves the moved
\* grid, and the queue and the influence as they were.  A phase with a match
\* is not isNothingToDo.
C15_NoMatchLeavesMovedGrid ==
    [][RequestsPhase =>
          LET moved == MovedGrid(puzzleState, call'.args) IN
          /\ getMatches(moved, width, height) = <<>> =>
                /\ call'.ret = ExplodeAndReplacePhase(<<>>, <<>>)
                /\ isNothingToDo(call'.ret)
                /\ puzzleState' = moved
                /\ nextGemsToSpawn' = nextGemsToSpawn
                /\ habitatInfluence' = habitatInfluence
          /\ Len(call'.ret.matches) > 0 => ~isNothingToDo(call'.ret)]_vars

\* A move that changed the grid found no match, with tokens waiting in the
\* manual queue.
C15_Witness ==
    /\ call.op = "getNextExplodeAndReplacePhase"
    /\ Len(call.args) = 1
    /\ isNothingToDo(call.ret)
    /\ Len(nextGemsToSpawn) > 0

\* The rows of column x that no match of the phase covers.
UnmatchedRows(phase, x) ==
    { y \in 0..(height - 1) :
        \A i \in DOMAIN phase.matches : <<x, y>> \notin Range(phase.matches[i]) }

\* The replacement types the phase lists for column x, [] when it lists none.
ListedFor(phase, x) ==
    LET hits == { i \in DOMAIN phase.replacements : phase.replacements[i][1] = x }
    IN  IF hits = {} THEN <<>> ELSE phase.replacements[CHOOSE i \in hits : TRUE][2]

\* C16: after a phase with matches is committed, replacement i of column x
\* is at row i, and the k-th unmatched cell of the column (top to bottom) is
\* at row (number of replacements of x) + k.
C16_ReplacementsAboveSurvivors ==
    [][(RequestsPhase /\ Len(call'.ret.matches) > 0) =>
          LET moved == MovedGrid(puzzleState, call'.args)
              phase == call'.ret
          IN  \A x \in 0..(width - 1) :
                LET new == ListedFor(phase, x)
                    kept == UnmatchedRows(phase, x)
                IN  /\ Len(puzzleState'[x + 1]) = Len(new) + Cardinality(kept)
                    /\ \A i \in DOMAIN new : puzzleState'[x + 1][i] = new[i]
                    /\ \A y \in kept :
                          puzzleState'[x + 1][Len(new)
                              + Cardinality({ z \in kept : z < y }) + 1]
                          = moved[x + 1][y + 1]]_vars

\* A phase cleared a row below the top one: every column has one replacement
\* above a survivor that moved down.
C16_Witness ==
    /\ call.op = "getNextExplodeAndReplacePhase"
    /\ \E i \in DOMAIN call.ret.matches :
          /\ ~IsVertical(call.ret.matches[i])
          /\ call.ret.matches[i][1][2] > 0
    /\ \E x \in 0..(width - 1) :
          /\ Len(ListedFor(call.ret, x)) = 1
          /\ ListedFor(call.ret, x)[1] # puzzleState[x + 1][2]

\* C17: getMatchesFromHypotheticalMove leaves puzzleState, the manual spawn
\* queue and the habitat influence as they were, for every move.
C17_HypotheticalMoveKeepsState ==
    [][(calls' = calls + 1 /\ call'.op = "getMatchesFromHypotheticalMove") =>
          /\ puzzleState' = puzzleState
          /\ nextGemsToSpawn' = nextGemsToSpawn
          /\ habitatInfluence' = habitatInfluence]_vars

\* A hypothetical row move that would give a match was asked for.
C17_Witness ==
    /\ call.op = "getMatchesFromHypotheticalMove"
    /\ call.args[1].rowOrCol = "row"
    /\ Len(call.ret) > 0

(* ----------------------- replacement tokens (C18 ..) --------------------- *)

\* The replacement types of a phase in the order they were drawn: columns
\* as listed, top-most new cell first within a column.
RECURSIVE DrawnTypes(_)
DrawnTypes(replacements) ==
    IF replacements = <<>> THEN <<>>
    ELSE Head(replacements)[2] \o DrawnTypes(Tail(replacements))

Min(a, b) == IF a < b THEN a ELSE b

\* C18: a phase that clears n cells takes its first min(n, queue length)
\* replacement types from the head of the manual queue, in queue order over
\* columns ascending and top-most new cell first, whatever the influence;
\* exactly these leave the queue, and the remaining replacements are token
\* types chosen by influence or at random.
C18_QueueDrainedFirst ==
    [][(RequestsPhase /\ Len(call'.ret.matches) > 0) =>
          LET phase == call'.ret
              drawn == DrawnTypes(phase.replacements)
              n == Cardinality(UNION { Range(phase.matches[i]) :
                                          i \in DOMAIN phase.matches })
              k == Min(n, Len(nextGemsToSpawn))
          IN  /\ Len(drawn) = n
              /\ SubSeq(drawn, 1, k) = SubSeq(nextGemsToSpawn, 1, k)
              /\ nextGemsToSpawn' = SubSeq(nextGemsToSpawn, k + 1, Len(nextGemsToSpawn))
              /\ \A i \in (k + 1)..n : drawn[i] \in Range(gemTypes)
              /\ \A i, j \in DOMAIN phase.replacements :
                    i < j => phase.replacements[i][1] < phase.replacements[j][1]]_vars

\* With an influence set, a phase took the one queued token for its first
\* new cell and chose the others itself.
C18_Witness ==
    /\ call.op = "getNextExplodeAndReplacePhase"
    /\ hasInfluence(habitatInfluence)
    /\ Len(call.ret.matches) > 0
    /\ DrawnTypes(call.ret.replacements)[1] = "purple"
    /\ \A i \in 2..Len(DrawnTypes(call.ret.replacements)) :
          DrawnTypes(call.ret.replacements)[i] # "purple"
    /\ nextGemsToSpawn = <<>>

\* C19: with an empty manual queue, after a phase is committed no vertical
\* run of three or more in a refilled column includes a newly spawned cell
\* (the cells of rows below the number of replacements of the column).
C19_NoRunThroughNewCells ==
    [][(RequestsPhase /\ Len(call'.ret.matches) > 0 /\ nextGemsToSpawn = <<>>) =>
          \A run \in MaximalRuns(puzzleState', 0, 1) :
             run[1][2] >= Len(ListedFor(call'.ret, run[1][1]))]_vars

\* C20: setHabitatInfluence regenerates the grid from scratch: after the
\* call the grid is a freshly generated one, which holds no run of three or
\* more.
C20_InfluenceRegeneratesGrid ==
    call.op = "setHabitatInfluence" => getMatches(puzzleState, width, height) = <<>>

(* ------------------------------ reset (C21) ------------------------------ *)

\* C21: reset() leaves the manual spawn queue empty, the habitat influence
\* null and a full width x height grid without a run of three or more; the
\* width and the height are as they were.
C21_ResetClearsAll ==
    [][(calls' = calls + 1 /\ call'.op = "reset") =>
          /\ nextGemsToSpawn' = <<>>
          /\ habitatInfluence' = JsNull
          /\ WellFormed(puzzleState')
          /\ ~HasRun(puzzleState')
          /\ width' = width /\ height' = height]_vars

\* reset() was the second call made on the engine.
C21_Witness == call.op = "reset" /\ calls >= 2

(* ------------------- construction at the edges (C22 ..) ------------------ *)

\* C22: a constructor call with a width or a height that is zero or negative
\* ends in an error, and leaves no grid.
C22_BadSizeRejected ==
    (call.op # "new" /\ (width <= 0 \/ height <= 0)) =>
        call.op = "RangeError" /\ puzzleState = <<>>

\* C27: with one or two token types the constructor returns normally with a
\* grid of width columns of height cells, each holding one of the token
\* types, also where every type would complete a run.
C27_FewTypesStillFill ==
    (call.op # "new" /\ Len(gemTypes) < 3) =>
        /\ call.op = "constructor"
        /\ Len(puzzleState) = width
        /\ \A i \in DOMAIN puzzleState :
              /\ Len(puzzleState[i]) = height
              /\ \A j \in DOMAIN puzzleState[i] :
                    puzzleState[i][j] \in Range(gemTypes)

\* A grid of two types was constructed in which both types were filtered
\* out for cell (2, 2): two equal cells above it, two of the other type to
\* its left.
C27_Witness ==
    /\ call.op = "constructor" /\ Len(gemTypes) = 2
    /\ width >= 3 /\ height >= 3
    /\ puzzleState[3][1] = puzzleState[3][2]
    /\ puzzleState[1][3] = puzzleState[2][3]
    /\ puzzleState[3][1] # puzzleState[1][3]

(* ----------------------- token selection (C23 ..) ------------------------ *)

\* The types getNextGemToSpawnType can return for the queue and the
\* influence given, over the outcomes of Math.random().
SelectableTypes(types, queue, influence) ==
    { getNextGemToSpawnType(types, queue, influence, rnd, 1).type :
        rnd \in PeriodicStreams(types, 2, 2) }

\* C23: generation selects its types as replacement does: the first cell
\* reset() generates, on which no filter acts, holds a type that
\* getNextGemToSpawnType could return for the queue and the influence at
\* the time of the call.
C23_GenerationUsesSelection ==
    [][(calls' = calls + 1 /\ call'.op = "reset") =>
          puzzleState'[1][1]
             \in SelectableTypes(gemTypes, nextGemsToSpawn, habitatInfluence)]_vars

\* C24: with an empty manual queue getNextGemToSpawnType returns a token
\* type: the type the picked habitat maps to when that is a token type, and
\* a token type all the same when the habitat maps to nothing or to a type
\* that is no token type.
C24_SelectionReturnsTokenType ==
    [][(calls' = calls + 1 /\ call'.op = "getNextGemToSpawnType"
          /\ nextGemsToSpawn = <<>>) =>
          /\ call'.ret \in Range(gemTypes)
          /\ hasInfluence(habitatInfluence) =>
                LET habitatValue == habitatInfluence.items[
                        RandomIndex(call'.args[1], Len(gemTypes),
                                    Len(habitatInfluence.items)) + 1]
                    mapped == HABITAT_GEM_MAP(habitatValue.value)
                IN  mapped \in Range(gemTypes) => call'.ret = mapped]_vars

\* A type was selected for the habitat 900, which maps to 'white', no token
\* type of the engine.
C24_Witness ==
    /\ call.op = "getNextGemToSpawnType"
    /\ nextGemsToSpawn = <<>> /\ calls = 1
    /\ habitatInfluence = JsArray(<<Num(900)>>)
    /\ "white" \notin Range(gemTypes)
    /\ call.ret \in Range(gemTypes)

\* C26: after any sequence of public calls every cell of the grid holds one
\* of the token types.
C26_CellsHoldTokenTypes ==
    \A i \in DOMAIN puzzleState : \A j \in DOMAIN puzzleState[i] :
       puzzleState[i][j] \in Range(gemTypes)

(* ------------------------ shift amounts (C28) ---------------------------- *)

\* The length of the line move m shifts.
LineLength(m) == IF m.rowOrCol = "row" THEN width ELSE height

\* Move m with the amount n.
WithAmount(m, n) == MoveAction(m.rowOrCol, m.index, n)

\* The amounts of a second shift of the same line: both signs, within and
\* beyond the length of every line.
SecondAmounts == {-MaxAmount, -2, -1, 1, 3, MaxAmount}

\* C28: for a submitted move on a line of the grid, by any signed amount a,
\* the shift by a + k * length gives the grid the shift by a gives, and the
\* shift by a followed by the shift by b gives the grid the shift by a + b
\* gives; the call returns, and without a match it leaves that grid.
C28_AmountsModuloLength ==
    [][(SubmitsOneMove /\ InRange(call'.args[1])) =>
          LET m == call'.args[1]
              shifted == applyMoveToGrid(puzzleState, width, height, m)
          IN  /\ \A k \in {-2, 1} :
                    applyMoveToGrid(puzzleState, width, height,
                        WithAmount(m, m.amount + k * LineLength(m))) = shifted
              /\ \A b \in SecondAmounts :
                    applyMoveToGrid(shifted, width, height, WithAmount(m, b))
                      = applyMoveToGrid(puzzleState, width, height,
                            WithAmount(m, m.amount + b))
              /\ isNothingToDo(call'.ret) => puzzleState' = shifted]_vars

\* A move by a negative amount beyond the length of its line, not a
\* multiple of it, was submitted and gave no match.
C28_Witness ==
    /\ call.op = "getNextExplodeAndReplacePhase"
    /\ Len(call.args) = 1
    /\ InRange(call.args[1])
    /\ call.args[1].amount < -LineLength(call.args[1])
    /\ call.args[1].amount % LineLength(call.args[1]) # 0
    /\ isNothingToDo(call.ret)
    /\ puzzleState # applyMoveToGrid(puzzleState, width, height, call.args[1])

(* ------------------------ lists of moves (C30) --------------------------- *)

\* C30: a request with two moves shifts the line of the first and then, in
\* the grid this gives, the line of the second, and looks for matches once,
\* in the grid after both: the matches returned are those of that grid, and
\* a request that returns none leaves that grid, whatever runs the grid
\* between the moves held.
C30_MovesThenOneDetection ==
    [][(RequestsPhase /\ Len(call'.args) = 2) =>
          LET between == ShiftedGrid(puzzleState, call'.args[1])
              final == ShiftedGrid(between, call'.args[2])
          IN  /\ call'.ret.matches = getMatches(final, width, height)
              /\ isNothingToDo(call'.ret) => puzzleState' = final]_vars

\* A request with two moves on different lines returned no match, while the
\* grid between the two moves held a run.
C30_Witness ==
    /\ call.op = "getNextExplodeAndReplacePhase"
    /\ Len(call.args) = 2
    /\ call.args[1].index # call.args[2].index
    /\ isNothingToDo(call.ret)
    /\ getMatches(ShiftedGrid(puzzleState, Inverse(call.args[2])), width, height)
         # <<>>

(* ---------------------- the released drag (C25 ..) ----------------------- *)

\* This step is a pointer-up that computed the amount 0: its sequence is
\* the snap-back.
SnapsBack ==
    /\ calls' = calls + 1
    /\ tasks'[calls'].pc = "snapBack"

\* The token types of the sprites, slot by slot.
SpriteTypes(sprites) ==
    [x \in DOMAIN sprites |-> [y \in DOMAIN sprites[x] |-> sprites[x][y].gemType]]

\* C25: a drag released with the amount 0 does not reach the engine: no
\* move handed to the engine has the amount 0, and the release that snaps
\* back leaves the last call, the grid and the spawn queue as they were,
\* keeps every sprite in its slot and sends every dragged sprite back to
\* where it started.
C25_ZeroAmountSnapsBack ==
    [][/\ SubmitsMove => call'.args[1].amount # 0
       /\ SnapsBack =>
            /\ tasks'[calls'].move.amount = 0
            /\ call' = call
            /\ puzzleState' = puzzleState
            /\ nextGemsToSpawn' = nextGemsToSpawn
            /\ SpriteTypes(gemsSprites') = SpriteTypes(gemsSprites)
            /\ \A k \in DOMAIN drag.draggingSprites :
                  LET pos == drag.dragStartSpritePositions[k] IN
                  /\ <<pos[1], pos[2], 0>> \in tasks'[calls'].falls
                  /\ getSpriteAt(gemsSprites', pos[1], pos[2])
                       = setGridData(getSpriteAt(gemsSprites, pos[1], pos[2]),
                                     pos[1], pos[2])]_vars

\* After a move the engine took, a second drag was released with the
\* amount 0 and its three sprites are on their way back.
C25_Witness ==
    /\ calls = 2
    /\ tasks[2].pc = "snapBack"
    /\ Cardinality(tasks[2].falls) = 3
    /\ call.op = "getNextExplodeAndReplacePhase"

\* C29: every move the controller hands to the engine names a line of the
\* grid and has an integer amount other than 0 between -(length - 1) and
\* length - 1, wherever the pointer went down and was released.
C29_SubmittedMovesWellFormed ==
    (call.op = "getNextExplodeAndReplacePhase" /\ Len(call.args) = 1) =>
        LET m == call.args[1] IN
        /\ InRange(m)
        /\ m.amount \in Int
        /\ m.amount # 0
        /\ -(LineLength(m) - 1) <= m.amount
        /\ m.amount <= LineLength(m) - 1

\* A move of the last line by the largest amount was handed to the engine.
C29_Witness ==
    /\ call.op = "getNextExplodeAndReplacePhase"
    /\ Len(call.args) = 1
    /\ call.args[1].index = LineLength(call.args[1]) - 1
    /\ call.args[1].amount = LineLength(call.args[1]) - 1

(* ------------------------ one cycle a call (C31) ------------------------- *)

\* C31: a request makes one explode-and-replace cycle at most: the matches
\* it returns are those of the grid after the moves, the grid it leaves is
\* that grid with the matched cells replaced once, runs the refill created
\* included, and the request without moves that follows returns exactly the
\* runs left.
C31_OneCyclePerCall ==
    [][RequestsPhase =>
          LET moved == MovedGrid(puzzleState, call'.args)
              next == getNextExplodeAndReplacePhase(gemTypes, puzzleState', width,
                          height, nextGemsToSpawn', habitatInfluence, <<>>,
                          CHOOSE rnd \in SceneStreams : TRUE)
          IN  /\ call'.ret.matches = getMatches(moved, width, height)
              /\ puzzleState' = IF isNothingToDo(call'.ret) THEN moved
                                ELSE applyExplodeAndReplacePhase(moved, width, height,
                                                                 call'.ret)
              /\ next.phase.matches = getMatches(puzzleState', width, height)]_vars

\* A request cleared a match and its refill left a run of three, through a
\* new cell, in the grid.
C31_Witness ==
    /\ call.op = "getNextExplodeAndReplacePhase"
    /\ ~isNothingToDo(call.ret)
    /\ \E i \in DOMAIN getMatches(puzzleState, width, height) :
          \E c \in Range(getMatches(puzzleState, width, height)[i]) :
             c[2] < Len(ListedFor(call.ret, c[1]))

(* ------------------------ the frame of a shift (C32) --------------------- *)

\* The cells of the line move m names, in line order.
LineCells(grid, m) ==
    IF m.rowOrCol = "row" THEN [i \in 1..width |-> grid[i][m.index + 1]]
    ELSE grid[m.index + 1]

\* The number of cells of the line that hold type t.
CountOf(line, t) == Cardinality({ k \in DOMAIN line : line[k] = t })

\* C32: a submitted move on a line of the grid changes that line only:
\* in the grid applyMoveToGrid gives, every cell off the line is as it was
\* and the line holds each token type as often as before; a call without a
\* match leaves that grid.
C32_ShiftChangesOwnLineOnly ==
    [][(SubmitsOneMove /\ InRange(call'.args[1])) =>
          LET m == call'.args[1]
              shifted == applyMoveToGrid(puzzleState, width, height, m)
          IN  /\ \A i \in 1..width : \A j \in 1..height :
                    (IF m.rowOrCol = "row" THEN j - 1 # m.index ELSE i - 1 # m.index)
                       => shifted[i][j] = puzzleState[i][j]
              /\ \A t \in Range(gemTypes) :
                    CountOf(LineCells(shifted, m), t)
                      = CountOf(LineCells(puzzleState, m), t)
              /\ isNothingToDo(call'.ret) => puzzleState' = shifted]_vars

\* A move that changed its line was submitted to a grid of more than one
\* line on either axis and gave no match.
C32_Witness ==
    /\ call.op = "getNextExplodeAndReplacePhase"
    /\ Len(call.args) = 1
    /\ InRange(call.args[1])
    /\ width > 1 /\ height > 1
    /\ isNothingToDo(call.ret)
    /\ LineCells(puzzleState, call.args[1])
         # LineCells(ShiftedGrid(puzzleState, Inverse(call.args[1])), call.args[1])

(* ------------------------ crossing matches (C33) ------------------------- *)

\* The sum of the lengths of the replacement lists of a phase.
RECURSIVE ReplacementTotal(_)
ReplacementTotal(replacements) ==
    IF replacements = <<>> THEN 0
    ELSE Len(Head(replacements)[2]) + ReplacementTotal(Tail(replacements))

\* The sum of the lengths of the matches of a phase.
RECURSIVE MatchLengthTotal(_)
MatchLengthTotal(matches) ==
    IF matches = <<>> THEN 0 ELSE Len(Head(matches)) + MatchLengthTotal(Tail(matches))

\* C33: a phase lists for each column one replacement for each distinct
\* matched cell of the column, a cell in two matches counting once: the
\* column keeps its other cells and has `height` cells after the commit,
\* and the phase has as many replacements as distinct matched cells.
C33_SharedCellReplacedOnce ==
    [][RequestsPhase =>
          LET phase == call'.ret
              cells == UNION { Range(phase.matches[i]) : i \in DOMAIN phase.matches }
          IN  /\ \A x \in 0..(width - 1) :
                    /\ Len(ListedFor(phase, x))
                         = Cardinality({ c \in cells : c[1] = x })
                    /\ Cardinality(UnmatchedRows(phase, x))
                         = height - Len(ListedFor(phase, x))
                    /\ Len(puzzleState'[x + 1]) = height
              /\ ReplacementTotal(phase.replacements) = Cardinality(cells)]_vars

\* A phase with a vertical and a horizontal match through one cell: fewer
\* replacements than the lengths of the matches add up to.
C33_Witness ==
    /\ call.op = "getNextExplodeAndReplacePhase"
    /\ \E i, j \in DOMAIN call.ret.matches :
          /\ IsVertical(call.ret.matches[i]) /\ ~IsVertical(call.ret.matches[j])
          /\ Range(call.ret.matches[i]) \cap Range(call.ret.matches[j]) # {}
    /\ ReplacementTotal(call.ret.replacements) < MatchLengthTotal(call.ret.matches)

(* ------------------------ malformed moves (C34) -------------------------- *)

\* C34: a move whose rowOrCol is neither 'row' nor 'col' leaves the grid as
\* it was, whatever its index and amount.
C34_MalformedAxisIsNoOp ==
    [][(SubmitsOneMove /\ call'.args[1].rowOrCol \notin {"row", "col"}) =>
          puzzleState' = puzzleState]_vars

(* ------------------- trying a move, then making it (C35) ----------------- *)

\* C35: when getMatchesFromHypotheticalMove(m) is followed at once by
\* getNextExplodeAndReplacePhase([m]), the matches of the phase are the list
\* the first call returned.
C35_HypotheticalMatchesArePhaseMatches ==
    [][(/\ call.op = "getMatchesFromHypotheticalMove"
        /\ SubmitsOneMove
        /\ call'.args[1] = call.args[1]) =>
          call'.ret.matches = call.ret]_vars

\* A hypothetical move returned matches, and the request of the same move
\* that can follow returns them.
C35_Witness ==
    /\ call.op = "getMatchesFromHypotheticalMove"
    /\ call.ret # <<>>
    /\ calls < MaxCalls
    /\ \E rnd \in SeedStreams(gemTypes, 2 * width * height) :
          getNextExplodeAndReplacePhase(gemTypes, puzzleState, width, height,
              nextGemsToSpawn, habitatInfluence, call.args, rnd).phase.matches
            = call.ret

(* ----------------------- the view's own shift (C37) ---------------------- *)

\* The grid whose cell (x, y) holds the pair <<x, y>>.
SlotGrid(w, h) == [i \in 1..w |-> [j \in 1..h |-> <<i - 1, j - 1>>]]

\* The view holds in every slot a sprite of the model's token type that
\* stores the coordinates of the slot.
Mirrors(sprites, grid) ==
    /\ SpriteTypes(sprites) = grid
    /\ \A x \in DOMAIN sprites : \A y \in DOMAIN sprites[x] :
          /\ sprites[x][y].gridX = x - 1
          /\ sprites[x][y].gridY = y - 1

\* C37: updateGemsSpritesArrayAfterMove moves the sprites as applyMoveToGrid
\* moves the cells, for every axis, index and amount: the sprite a slot
\* holds after the move is the one of the slot the model's cell came from,
\* a view that mirrored the model mirrors it after the move, and every
\* sprite stores the coordinates of its slot.
C37_ViewShiftsAsModel ==
    [][(call'.op = "applyMoveToGrid" /\ calls' = calls + 1
           /\ Mirrors(gemsSprites, puzzleState)) =>
          LET from == applyMoveToGrid(SlotGrid(width, height), width, height,
                                      call'.args[1])
          IN  /\ Mirrors(gemsSprites', puzzleState')
              /\ \A x \in 1..width : \A y \in 1..height :
                    gemsSprites'[x][y].gemType =
                       gemsSprites[from[x][y][1] + 1][from[x][y][2] + 1].gemType]_vars

\* A move on an axis that is neither 'row' nor 'col' has moved the sprites
\* and the cells of a column.
C37_Witness ==
    /\ call.op = "applyMoveToGrid"
    /\ call.args[1].rowOrCol = "diag"
    /\ puzzleState # applyMoveToGrid(puzzleState, width, height,
                                     Inverse(call.args[1]))
    /\ Mirrors(gemsSprites, puzzleState)

(* ---------------------- the habitat influence (C38) ---------------------- *)

\* The positions of the numbers that are not NaN in a list of values.
ValidPositions(items) == { i \in DOMAIN items : items[i].type = "number" }

\* The k-th smallest member of a set of positions.
KthOf(S, k) == CHOOSE i \in S : Cardinality({ j \in S : j <= i }) = k

\* C38: after setHabitatInfluence(v), habitatInfluence is null or a
\* non-empty list of numbers that are not NaN: null when v is no array, is
\* empty or has no such number, and otherwise the numbers of v in their
\* order, the other entries left out.
C38_InfluenceIsNullOrNumbers ==
    [][(call'.op = "setHabitatInfluence" /\ calls' = calls + 1) =>
          LET v == call'.args[1]
              valid == IF v.type = "array" THEN ValidPositions(v.items) ELSE {}
          IN  /\ \/ habitatInfluence' = JsNull
                 \/ /\ habitatInfluence'.type = "array"
                    /\ habitatInfluence'.items # <<>>
                    /\ \A i \in DOMAIN habitatInfluence'.items :
                          habitatInfluence'.items[i].type = "number"
              /\ (valid = {}) <=> (habitatInfluence' = JsNull)
              /\ valid # {} =>
                    /\ Len(habitatInfluence'.items) = Cardinality(valid)
                    /\ \A k \in 1..Cardinality(valid) :
                          habitatInfluence'.items[k] = v.items[KthOf(valid, k)]]_vars

\* A list of NaN and two numbers was set: the two numbers are kept in order.
C38_Witness ==
    /\ call.op = "setHabitatInfluence"
    /\ call.args[1] = JsArray(<<NaN, Num(1400), Num(900)>>)
    /\ habitatInfluence = JsArray(<<Num(1400), Num(900)>>)

(* ----------------------- input comes back (C36) -------------------------- *)

\* A tween a sequence waits for was killed: that animation never completes.
AnimationKilled == \E i \in DOMAIN tasks : tasks[i].stuck

\* The cascade of a sequence is longer than the phases followed.
CascadeCutOff == \E i \in DOMAIN tasks : tasks[i].pc = "falls" /\ CutOff(i)

C39_StaysDisabled == ~Running => ~canMove

\* After shutdown() the engine is not called again.
EngineIdleAfterShutdown ==
    [][~Running => (call' = call /\ calls' = calls /\ engineVars' = engineVars)]_vars

=============================================================================
